---- MODULE Spec2Model ----
(***************************************************************************)
(* gh-vars-migrator: the migration engine (internal/migrator) run against  *)
(* a source and a target account of the hosting platform, the command that *)
(* starts it (internal/cmd) and the client it talks through                *)
(* (internal/client).                                                      *)
(*                                                                         *)
(* Spec         one migration (Migrator.Run) in one mode, optionally       *)
(*              followed by a second run of the same migration             *)
(* SpecOrg      one organization migration over variables of every         *)
(*              visibility                                                 *)
(* SpecCmd      the command runMigration: authentication, the capability   *)
(*              check, then the run                                        *)
(* SpecScopes   hasScope on every pair of granted scopes and required      *)
(*              scope                                                      *)
(* SpecRateLimit the pre-flight throttle of one client                     *)
(* SpecRequest  one call of the client against a platform whose answers    *)
(*              may be failures                                            *)
(*                                                                         *)
(* The platform is the environment: it holds the source and target         *)
(* variables, environments and repositories, and any API call may fail.    *)
(***************************************************************************)
EXTENDS Naturals, Sequences, FiniteSets

VARIABLES
    config,      \* types.MigrationConfig: mode, dryRun, force, skipEnvs, orgVisibility
    srcVars,     \* source listing of organization / repository variables
    srcEnvs,     \* source listing of environments (repository mode)
    srcEnvVars,  \* source listing of variables per environment
    tgtVars,     \* target organization / repository variables: name -> value
    tgtEnvs,     \* environments existing in the target repository
    tgtEnvVars,  \* target environment variables: env -> name -> value
    pc,          \* position of the command and of the run
    idx,         \* loop index over srcVars
    envIdx,      \* loop index over srcEnvs
    envVarIdx,   \* loop index over srcEnvVars[env]
    result,      \* types.MigrationResult of the current run
    summary,     \* the summaries logger.PrintSummary printed in this run, in order
    calls,       \* API calls issued by the current run, in order
    outcome,     \* per entity: what the current run did with it
    failures,    \* API failures injected so far
    run,         \* "first" or "second" run of the migration
    prev,        \* the first run, kept when the second starts
    tgtBefore,   \* target state when the current run started
    srcVis,      \* source organization variables: name -> visibility
    srcSelected, \* source organization variables: name -> selected repositories
    tgtRepos,    \* names of the repositories of the target organization
    sent,        \* per organization variable: the body of the write sent
    creds,       \* per side: the credential, as the platform knows it
    exit,        \* what runMigration returned, "none" before
    rateLimit,   \* types.RateLimitInfo of the source client
    now,         \* the clock
    slept,       \* the durations the throttle slept, <<>> if it did not
    scopeCheck,  \* one evaluation of hasScope, or of ValidateOrgScopes / ValidateRepoScopes
    request,     \* one call of the client
    flags,       \* the flags of the command line
    validation   \* one call of migrator.New: its arguments and what it returned

vars == <<config, srcVars, srcEnvs, srcEnvVars, tgtVars, tgtEnvs, tgtEnvVars,
          pc, idx, envIdx, envVarIdx, result, summary, calls, outcome,
          failures, run, prev, tgtBefore, srcVis, srcSelected, tgtRepos, sent,
          creds, exit, rateLimit, now, slept, scopeCheck, request, flags,
          validation>>

-----------------------------------------------------------------------------
(* Bounds of the model *)

\* API calls that fail in one behaviour, at most
MaxFailures == 1

\* names of organization variables
OrgVarNames == {"A", "B"}

\* names of repository variables
RepoVarNames == {"A"}

\* names of environments
Envs == {"staging", "prod"}

\* the listings of source environments: staging before prod
EnvListings == {<<>>, <<"staging">>, <<"prod">>, <<"staging", "prod">>}

\* names of environment variables
EnvVarNames == {"E"}

-----------------------------------------------------------------------------
(* Data *)

ModeRepoToRepo == "repo-to-repo"

ModeOrgToOrg == "org-to-org"

Modes == {ModeRepoToRepo, ModeOrgToOrg}

\* a variable is absent from a scope, or holds the value the target had
\* before ("old"), or the value the source holds ("new")
Absent == "absent"

\* the scope of organization / repository variables
Top == "top"

\* the names of the variables of the scope the mode migrates
VarNames(mode) == IF mode = ModeOrgToOrg THEN OrgVarNames ELSE RepoVarNames

\* the variables a run may meet: the organization / repository variables and
\* the variables of each environment
Entities == ({Top} \X (OrgVarNames \cup RepoVarNames)) \cup (Envs \X EnvVarNames)

\* duplicate-free sequences over S: a listing returns each name once
Listings(S) ==
    { s \in UNION { [1..n -> S] : n \in 0..Cardinality(S) } :
        \A i, j \in DOMAIN s : i # j => s[i] # s[j] }

\* the set of the names of a listing
Range(s) == { s[i] : i \in DOMAIN s }

MigrationResult == [created |-> 0, updated |-> 0, skipped |-> 0, errors |-> <<>>]

AddError(r, e) == [r EXCEPT !.errors = Append(@, e)]

HasErrors(r) == Len(r.errors) > 0

Total(r) == r.created + r.updated + r.skipped

-----------------------------------------------------------------------------
(* Capabilities: client/permissions.go *)

\* the two accounts of a migration, each with its own client and credential
Sides == {"source", "target"}

\* the OAuth scopes a token may carry: those the hierarchy names, and one it
\* does not name
Scopes == {"admin:org", "write:org", "read:org",
           "repo", "public_repo", "repo:status", "repo:deployment", "repo:invite",
           "gist"}

requiredOrgScopes == <<"admin:org">>

requiredRepoScopes == <<"repo">>

\* the literal map of isParentScope: the scopes a parent implies
hierarchy(parent) ==
    CASE parent = "admin:org" -> <<"write:org", "read:org">>
      [] parent = "repo" -> <<"public_repo", "repo:status", "repo:deployment",
                              "repo:invite">>
      [] OTHER -> <<>>

\* isParentScope reading the map in both directions
isParentScopeSymmetric(parent, required) ==
    \/ \E i \in DOMAIN hierarchy(parent) : hierarchy(parent)[i] = required
    \/ \E i \in DOMAIN hierarchy(required) : hierarchy(required)[i] = parent

\* isParentScope: required is one of the children the map gives for parent
isParentScope(parent, required) ==
    \E i \in DOMAIN hierarchy(parent) : hierarchy(parent)[i] = required

\* hasScope: the loop over the granted scopes returns true at the first one
\* that is the required scope or a parent of it, false when none is
hasScope(scopes, required) ==
    \E i \in DOMAIN scopes :
        \/ scopes[i] = required
        \/ isParentScope(scopes[i], required)

\* a credential as the platform knows it: whether it is accepted, and the
\* scopes of the X-OAuth-Scopes header of its responses (<<>> when the header
\* is absent or empty)
Credential(valid, header) == [valid |-> valid, header |-> header]

\* the X-OAuth-Scopes header of a response: absent, or present with the
\* comma-separated parts of its value (<<>> for the empty value)
ScopesHeader(present, parts) == [present |-> present, parts |-> parts]

\* resp.Header.Get("X-OAuth-Scopes"): the value of the header, the empty
\* value when the header is absent
HeaderGet(h) == IF h.present THEN h.parts ELSE <<>>

\* GetTokenScopes: GET user; a nil slice when the header is empty, otherwise
\* its non-empty parts
GetTokenScopes(header, fails) ==
    IF fails THEN [err |-> TRUE, nil |-> TRUE, scopes |-> <<>>]
    ELSE IF header = <<>> THEN [err |-> FALSE, nil |-> TRUE, scopes |-> <<>>]
    ELSE [err |-> FALSE, nil |-> FALSE,
          scopes |-> SelectSeq(header, LAMBDA part : part # "")]

\* ValidateOrgScopes / ValidateRepoScopes taking unknown scopes for no scopes
ValidateScopesDeniesUnknown(required, header, fails) ==
    LET got == GetTokenScopes(header, fails) IN
    IF got.err THEN "failed to retrieve token scopes"
    ELSE IF \E i \in DOMAIN required : ~hasScope(got.scopes, required[i])
    THEN "missing required scope"
    ELSE "none"

\* the body ValidateOrgScopes and ValidateRepoScopes share: the error
\* returned, "none" for nil
ValidateScopes(required, header, fails) ==
    LET got == GetTokenScopes(header, fails) IN
    IF got.err THEN "failed to retrieve token scopes"
    ELSE IF got.nil THEN "none"
    ELSE IF \E i \in DOMAIN required : ~hasScope(got.scopes, required[i])
    THEN "missing required scope"
    ELSE "none"

ValidateOrgScopes(header, fails) == ValidateScopes(requiredOrgScopes, header, fails)

ValidateRepoScopes(header, fails) == ValidateScopes(requiredRepoScopes, header, fails)

-----------------------------------------------------------------------------
(* The platform, as the client sees it *)

\* one API call of the log.  res is "ok", "notfound" (the platform answered
\* that the thing read does not exist) or "error" (the call failed, or the
\* platform refused the write); envExisted tells whether the scope addressed
\* existed in the target when the call was issued
Call(side, op, scope, name, res, envExisted) ==
    [side |-> side, op |-> op, scope |-> scope, name |-> name, res |-> res,
     envExisted |-> envExisted]

\* GetOrgVariable / GetRepoVariable / GetEnvVariable: the variable is returned
\* when it exists and the request succeeds; any other answer is an error to
\* the caller.  cur is Absent for every variable of a scope that does not exist
GetVariable(cur, readFails) ==
    IF readFails THEN "error" ELSE IF cur = Absent THEN "notfound" ELSE "ok"

\* CreateOrgVariable / CreateRepoVariable / CreateEnvVariable: a POST; the
\* platform refuses a name that exists in the scope, and a scope that does
\* not exist
CreateVariable(cur, scopeExists, writeFails) ==
    IF ~writeFails /\ scopeExists /\ cur = Absent THEN "ok" ELSE "error"

\* UpdateOrgVariable / UpdateRepoVariable / UpdateEnvVariable: a PATCH of an
\* existing variable
UpdateVariable(cur, writeFails) ==
    IF ~writeFails /\ cur # Absent THEN "ok" ELSE "error"

-----------------------------------------------------------------------------
(* The pre-flight throttle of a client: Client.WaitForRateLimit *)

\* the reserved threshold of remaining requests
minRemainingRequests == 10

\* the safety buffer added to a sleep, in seconds
rateLimitBuffer == 5

\* the client has seen no rate-limit headers yet: the zero RateLimitInfo
NoRateLimitInfo == [limit |-> 0, remaining |-> 0, resetTime |-> 0]

\* the throttle sleeping at the threshold too
waitForRateLimitAtThreshold(rl, threshold, t) ==
    IF rl = NoRateLimitInfo THEN <<>>
    ELSE IF rl.remaining <= threshold /\ rl.resetTime > t
    THEN <<(rl.resetTime - t) + rateLimitBuffer>>
    ELSE <<>>

\* the throttle sleeping until the reset whatever remains
waitForRateLimitWhateverRemains(rl, threshold, t) ==
    IF rl = NoRateLimitInfo THEN <<>>
    ELSE IF rl.resetTime > t
    THEN <<(rl.resetTime - t) + rateLimitBuffer>>
    ELSE <<>>

\* waitForRateLimit(rl, threshold, sleepFn) at time t: the durations handed to
\* sleepFn, <<>> when sleepFn is not called.  It sleeps until the reset
\* time plus the buffer when fewer than threshold requests remain and the
\* reset time is still ahead
waitForRateLimit(rl, threshold, t) ==
    IF rl = NoRateLimitInfo THEN <<>>
    ELSE IF rl.remaining < threshold /\ rl.resetTime > t
    THEN <<(rl.resetTime - t) + rateLimitBuffer>>
    ELSE <<>>

-----------------------------------------------------------------------------
(* Configuration: config.Validate and migrator.New *)

\* a mode the program does not know, and the environment-only mode of the
\* configurations the tests build
ModeEnvOnly == "env-only"

ModeUnknown == "unknown"

\* types.MigrationConfig as far as validation reads it; nil marks the nil
\* pointer
Config(mode, so, sr, sg, to, tr, tg, se, te, vis) ==
    [nil |-> FALSE, mode |-> mode, sourceOwner |-> so, sourceRepo |-> sr,
     sourceOrg |-> sg, targetOwner |-> to, targetRepo |-> tr, targetOrg |-> tg,
     sourceEnv |-> se, targetEnv |-> te, orgVisibility |-> vis]

NilConfig == [Config("", "", "", "", "", "", "", "", "", "") EXCEPT !.nil = TRUE]

validateRepoToRepo(cfg) ==
    IF cfg.sourceOwner = "" THEN "source owner is required"
    ELSE IF cfg.sourceRepo = "" THEN "source repository is required"
    ELSE IF cfg.targetOwner = "" THEN "target owner is required"
    ELSE IF cfg.targetRepo = "" THEN "target repository is required"
    ELSE "none"

validateOrgToOrg(cfg) ==
    IF cfg.sourceOrg = "" THEN "source organization is required"
    ELSE IF cfg.targetOrg = "" THEN "target organization is required"
    ELSE IF cfg.orgVisibility # "" /\ cfg.orgVisibility \notin {"all", "private", "selected"}
    THEN "invalid org visibility"
    ELSE "none"

\* config.Validate: the error message, "none" for nil
Validate(cfg) ==
    IF cfg.nil THEN "configuration is nil"
    ELSE IF cfg.mode = "repo-to-repo" THEN validateRepoToRepo(cfg)
    ELSE IF cfg.mode = "org-to-org" THEN validateOrgToOrg(cfg)
    ELSE "invalid migration mode"

\* migrator.New: the error of Validate (wrapped), or of a missing client;
\* built tells whether a Migrator was returned
New(cfg, sourceClient, targetClient) ==
    IF Validate(cfg) # "none" THEN [err |-> Validate(cfg), built |-> FALSE]
    ELSE IF ~sourceClient THEN [err |-> "source client cannot be nil", built |-> FALSE]
    ELSE IF ~targetClient THEN [err |-> "target client cannot be nil", built |-> FALSE]
    ELSE [err |-> "none", built |-> TRUE]

\* the command line flags that name the coordinates and the mode
Flags(so, sr, to, tr, o2o) ==
    [sourceOrg |-> so, sourceRepo |-> sr, targetOrg |-> to, targetRepo |-> tr,
     orgToOrg |-> o2o]

-----------------------------------------------------------------------------
(* The reconciler *)

\* what migrateOrgVariable / migrateRepoVariable / migrateEnvVariable leave
\* behind: the result, the error returned ("none" for nil), the variable's
\* value in the target afterwards, and the read and the write issued
Migrated(r, err, value, read, write) ==
    [result |-> r, err |-> err, value |-> value, read |-> read, write |-> write]

\* migrateVariable with the dry-run test of the update branch left out
migrateVariableUpdatesInDryRun(cfg, cur, scopeExists, r, readFails, writeFails) ==
    LET read == GetVariable(cur, readFails) IN
    IF read = "ok"
    THEN IF ~cfg.force
         THEN Migrated([r EXCEPT !.skipped = @ + 1], "none", cur, read, "none")
         ELSE IF UpdateVariable(cur, writeFails) # "ok"
         THEN Migrated(r, "failed to update", cur, read, "update")
         ELSE Migrated([r EXCEPT !.updated = @ + 1], "none", "new", read, "update")
    ELSE IF cfg.dryRun
         THEN Migrated([r EXCEPT !.created = @ + 1], "none", cur, read, "none")
         ELSE IF CreateVariable(cur, scopeExists, writeFails) # "ok"
         THEN Migrated(r, "failed to create", cur, read, "create")
         ELSE Migrated([r EXCEPT !.created = @ + 1], "none", "new", read, "create")

\* migrateVariable counting a creation before the create call, so that a
\* failed creation is both counted and returned as an error
migrateVariableCountsFailedCreate(cfg, cur, scopeExists, r, readFails, writeFails) ==
    LET read == GetVariable(cur, readFails) IN
    IF read = "ok"
    THEN IF ~cfg.force
         THEN Migrated([r EXCEPT !.skipped = @ + 1], "none", cur, read, "none")
         ELSE IF cfg.dryRun
         THEN Migrated([r EXCEPT !.updated = @ + 1], "none", cur, read, "none")
         ELSE IF UpdateVariable(cur, writeFails) # "ok"
         THEN Migrated(r, "failed to update", cur, read, "update")
         ELSE Migrated([r EXCEPT !.updated = @ + 1], "none", "new", read, "update")
    ELSE IF cfg.dryRun
         THEN Migrated([r EXCEPT !.created = @ + 1], "none", cur, read, "none")
         ELSE IF CreateVariable(cur, scopeExists, writeFails) # "ok"
         THEN Migrated([r EXCEPT !.created = @ + 1], "failed to create", cur, read,
                       "create")
         ELSE Migrated([r EXCEPT !.created = @ + 1], "none", "new", read, "create")

\* migrateVariable with the test of force inverted
migrateVariableForceInverted(cfg, cur, scopeExists, r, readFails, writeFails) ==
    LET read == GetVariable(cur, readFails) IN
    IF read = "ok"
    THEN IF cfg.force
         THEN Migrated([r EXCEPT !.skipped = @ + 1], "none", cur, read, "none")
         ELSE IF cfg.dryRun
         THEN Migrated([r EXCEPT !.updated = @ + 1], "none", cur, read, "none")
         ELSE IF UpdateVariable(cur, writeFails) # "ok"
         THEN Migrated(r, "failed to update", cur, read, "update")
         ELSE Migrated([r EXCEPT !.updated = @ + 1], "none", "new", read, "update")
    ELSE IF cfg.dryRun
         THEN Migrated([r EXCEPT !.created = @ + 1], "none", cur, read, "none")
         ELSE IF CreateVariable(cur, scopeExists, writeFails) # "ok"
         THEN Migrated(r, "failed to create", cur, read, "create")
         ELSE Migrated([r EXCEPT !.created = @ + 1], "none", "new", read, "create")

\* migrateVariable that, without force, counts an existing variable as
\* skipped and goes on to update it all the same
migrateVariableSkipFallsThrough(cfg, cur, scopeExists, r, readFails, writeFails) ==
    LET read == GetVariable(cur, readFails) IN
    IF read = "ok"
    THEN IF ~cfg.force /\ cfg.dryRun
         THEN Migrated([r EXCEPT !.skipped = @ + 1], "none", cur, read, "none")
         ELSE IF ~cfg.force
         THEN IF UpdateVariable(cur, writeFails) # "ok"
              THEN Migrated(r, "failed to update", cur, read, "update")
              ELSE Migrated([r EXCEPT !.skipped = @ + 1], "none", "new", read, "update")
         ELSE IF cfg.dryRun
         THEN Migrated([r EXCEPT !.updated = @ + 1], "none", cur, read, "none")
         ELSE IF UpdateVariable(cur, writeFails) # "ok"
         THEN Migrated(r, "failed to update", cur, read, "update")
         ELSE Migrated([r EXCEPT !.updated = @ + 1], "none", "new", read, "update")
    ELSE IF cfg.dryRun
         THEN Migrated([r EXCEPT !.created = @ + 1], "none", cur, read, "none")
         ELSE IF CreateVariable(cur, scopeExists, writeFails) # "ok"
         THEN Migrated(r, "failed to create", cur, read, "create")
         ELSE Migrated([r EXCEPT !.created = @ + 1], "none", "new", read, "create")

\* migrateVariable that does not look at what the read returned and always
\* takes the create branch
migrateVariableIgnoresRead(cfg, cur, scopeExists, r, readFails, writeFails) ==
    LET read == GetVariable(cur, readFails) IN
    IF cfg.dryRun
    THEN Migrated([r EXCEPT !.created = @ + 1], "none", cur, read, "none")
    ELSE IF CreateVariable(cur, scopeExists, writeFails) # "ok"
    THEN Migrated(r, "failed to create", cur, read, "create")
    ELSE Migrated([r EXCEPT !.created = @ + 1], "none", "new", read, "create")

\* a reconciler that answers a refused create with an update
migrateVariableAfterReadUpserts(cfg, read, cur, scopeExists, r, writeFails) ==
    IF read = "ok"
    THEN IF ~cfg.force
         THEN Migrated([r EXCEPT !.skipped = @ + 1], "none", cur, read, "none")
         ELSE IF cfg.dryRun
         THEN Migrated([r EXCEPT !.updated = @ + 1], "none", cur, read, "none")
         ELSE IF UpdateVariable(cur, writeFails) # "ok"
         THEN Migrated(r, "failed to update", cur, read, "update")
         ELSE Migrated([r EXCEPT !.updated = @ + 1], "none", "new", read, "update")
    ELSE IF cfg.dryRun
         THEN Migrated([r EXCEPT !.created = @ + 1], "none", cur, read, "none")
         ELSE IF CreateVariable(cur, scopeExists, writeFails) = "ok"
         THEN Migrated([r EXCEPT !.created = @ + 1], "none", "new", read, "create")
         ELSE IF UpdateVariable(cur, writeFails) = "ok"
         THEN Migrated([r EXCEPT !.updated = @ + 1], "none", "new", read, "update")
         ELSE Migrated(r, "failed to create", cur, read, "create")

\* the reconcilers from the answer of their read on: read is what
\* Get*Variable returned, cur the variable's value in the target when the
\* write, if any, reaches the platform
migrateVariableAfterRead(cfg, read, cur, scopeExists, r, writeFails) ==
    IF read = "ok"
    THEN IF ~cfg.force
         THEN Migrated([r EXCEPT !.skipped = @ + 1], "none", cur, read, "none")
         ELSE IF cfg.dryRun
         THEN Migrated([r EXCEPT !.updated = @ + 1], "none", cur, read, "none")
         ELSE IF UpdateVariable(cur, writeFails) # "ok"
         THEN Migrated(r, "failed to update", cur, read, "update")
         ELSE Migrated([r EXCEPT !.updated = @ + 1], "none", "new", read, "update")
    ELSE IF cfg.dryRun
         THEN Migrated([r EXCEPT !.created = @ + 1], "none", cur, read, "none")
         ELSE IF CreateVariable(cur, scopeExists, writeFails) # "ok"
         THEN Migrated(r, "failed to create", cur, read, "create")
         ELSE Migrated([r EXCEPT !.created = @ + 1], "none", "new", read, "create")

\* migrateOrgVariable, migrateRepoVariable, migrateEnvVariable: the three
\* have the same body.  cur is the variable's value in the target scope,
\* scopeExists whether that scope exists, r the result so far.
migrateVariable(cfg, cur, scopeExists, r, readFails, writeFails) ==
    migrateVariableAfterRead(cfg, GetVariable(cur, readFails), cur, scopeExists, r,
                             writeFails)

\* a per-entity failure of the result's list: what failed, and the names the
\* message wraps it with
Failure(kind, env, name) == [kind |-> kind, env |-> env, name |-> name]

\* what the loops do with the error a reconciliation returned: append it to
\* the result, wrapped with the names
appendError(m, failure) ==
    [m EXCEPT !.result = IF m.err # "none" THEN AddError(m.result, failure)
                         ELSE m.result]

\* the body of the loops over a listing: reconcile one variable and, when it
\* returns an error, append it to the result
migrateOne(cfg, cur, scopeExists, r, readFails, writeFails, failure) ==
    appendError(migrateVariable(cfg, cur, scopeExists, r, readFails, writeFails),
                failure)

\* the loops over a listing with an early exit on the first error
NextTurnStopsOnError(i, n, err) == IF err # "none" THEN n + 1 ELSE i + 1

\* the loops over a listing (for ... range): after a turn at position i of n,
\* whatever error the turn gave, the loop goes on with the next position
NextTurn(i, n, err) == i + 1

\* a reconciliation that sends its create to the source coordinates
VariableCallsCreateAtSource(scope, name, m, envExisted) ==
    <<Call("target", "GetVariable", scope, name, m.read, envExisted)>>
    \o (IF m.write = "create"
        THEN <<Call("source", "CreateVariable", scope, name,
                    IF m.err = "none" THEN "ok" ELSE "error", envExisted)>>
        ELSE IF m.write = "update"
        THEN <<Call("target", "UpdateVariable", scope, name,
                    IF m.err = "none" THEN "ok" ELSE "error", envExisted)>>
        ELSE <<>>)

\* the calls one reconciliation issues: the read, then the write if any
VariableCalls(scope, name, m, envExisted) ==
    <<Call("target", "GetVariable", scope, name, m.read, envExisted)>>
    \o (IF m.write = "create"
        THEN <<Call("target", "CreateVariable", scope, name,
                    IF m.err = "none" THEN "ok" ELSE "error", envExisted)>>
        ELSE IF m.write = "update"
        THEN <<Call("target", "UpdateVariable", scope, name,
                    IF m.err = "none" THEN "ok" ELSE "error", envExisted)>>
        ELSE <<>>)

\* failures injected into one reconciliation: a failed read, a failed write
Injected(m, readFails, writeFails) ==
    (IF readFails THEN 1 ELSE 0)
    + (IF m.write # "none" /\ writeFails THEN 1 ELSE 0)

\* what one step did to the result, read off the result itself
OutcomeOf(r, r2) ==
    CASE r2 = [r EXCEPT !.created = @ + 1] -> "created"
      [] r2 = [r EXCEPT !.updated = @ + 1] -> "updated"
      [] r2 = [r EXCEPT !.skipped = @ + 1] -> "skipped"
      [] Len(r2.errors) = Len(r.errors) + 1
         /\ [r2 EXCEPT !.errors = r.errors] = r -> "failed"
      [] OTHER -> "other"

-----------------------------------------------------------------------------
(* Visibility of organization variables *)

\* the visibility of an organization variable; the listing may leave it out
Visibilities == {"", "all", "private", "selected"}

\* names of repositories, in the source and in the target organization
RepoNames == {"api", "web"}

\* the order in which a selection is listed
RepoListing == <<"api", "web">>

\* the identifier the platform assigned to the repository of one side that
\* bears a name
RepoID(side, name) == <<side, name>>

\* Client.ListOrgVariableSelectedRepos: the repositories selected for a
\* variable of the source organization, each with its name and identifier
ListOrgVariableSelectedRepos(selected, listFails) ==
    IF listFails THEN [err |-> TRUE, repos |-> <<>>]
    ELSE [err |-> FALSE,
          repos |-> SelectSeq(RepoListing, LAMBDA r : r \in selected)]

\* Client.GetRepo: the repository of an organization that bears a name
GetRepo(repos, name, fails) ==
    IF fails THEN "error" ELSE IF name \in repos THEN "ok" ELSE "notfound"

\* resolveSelectedRepos that selects every repository of the target when the
\* source selection cannot be listed
resolveSelectedReposSelectsAll(selected, repos, listFails, repoFails) ==
    LET listed == ListOrgVariableSelectedRepos(selected, listFails) IN
    IF listed.err
    THEN [err |-> TRUE, ids |-> { RepoID("target", r) : r \in repos }, looked |-> <<>>]
    ELSE [err |-> FALSE,
          ids |-> { RepoID("target", listed.repos[i]) :
                      i \in { k \in DOMAIN listed.repos :
                                GetRepo(repos, listed.repos[k],
                                        listed.repos[k] \in repoFails) = "ok" } },
          looked |-> listed.repos]

\* resolveSelectedRepos: list the source selection and look every name up in
\* the target organization; a name whose look-up gives an error is passed
\* over.  selected: the source selection; repos: the target's repositories;
\* repoFails: the names whose look-up fails.  looked: the names looked up
resolveSelectedRepos(selected, repos, listFails, repoFails) ==
    LET listed == ListOrgVariableSelectedRepos(selected, listFails) IN
    IF listed.err
    THEN [err |-> TRUE, ids |-> {}, looked |-> <<>>]
    ELSE [err |-> FALSE,
          ids |-> { RepoID("target", listed.repos[i]) :
                      i \in { k \in DOMAIN listed.repos :
                                GetRepo(repos, listed.repos[k],
                                        listed.repos[k] \in repoFails) = "ok" } },
          looked |-> listed.repos]

\* the head of the loop of migrateOrgToOrg: the variable handed to
\* migrateOrgVariable.  A missing visibility becomes "all"; for "selected"
\* the selection is resolved, and an error of the resolution leaves it empty
OrgVariable(name, vis, selected, repos, listFails, repoFails) ==
    LET visibility == IF vis = "" THEN "all" ELSE vis
        resolution == resolveSelectedRepos(selected, repos, listFails, repoFails)
    IN IF visibility = "selected"
       THEN [name |-> name, visibility |-> visibility,
             selectedRepositoryIDs |-> resolution.ids,
             resolved |-> TRUE, listed |-> ~resolution.err,
             looked |-> resolution.looked]
       ELSE [name |-> name, visibility |-> visibility,
             selectedRepositoryIDs |-> {},
             resolved |-> FALSE, listed |-> FALSE, looked |-> <<>>]

\* the body CreateOrgVariable and UpdateOrgVariable send: name, value and the
\* visibility "all"; no repository identifiers are part of it.  variable
\* keeps what the client was handed
OrgVariableBody(variable) ==
    [visibility |-> "all", idsSent |-> FALSE, ids |-> {},
     variable |-> [visibility |-> variable.visibility,
                   selectedRepositoryIDs |-> variable.selectedRepositoryIDs]]

\* the calls the resolution of a variable issues
ResolveCalls(variable, repos, repoFails) ==
    IF ~variable.resolved THEN <<>>
    ELSE <<Call("source", "ListOrgVariableSelectedRepos", Top, variable.name,
                IF variable.listed THEN "ok" ELSE "error", TRUE)>>
         \o [i \in DOMAIN variable.looked |->
                Call("target", "GetRepo", Top, variable.looked[i],
                     GetRepo(repos, variable.looked[i],
                             variable.looked[i] \in repoFails), TRUE)]

\* failures injected into the resolution of a variable
ResolveInjected(variable, listFails, repoFails) ==
    (IF listFails THEN 1 ELSE 0) + Cardinality(repoFails)

-----------------------------------------------------------------------------
(* Environment provisioning *)

\* GetEnvironment: the environment is returned when it exists and the
\* request succeeds
GetEnvironment(exists, getFails) ==
    IF getFails THEN "error" ELSE IF exists THEN "ok" ELSE "notfound"

\* ensureEnvironmentExists dropping the error of CreateEnvironment
ensureEnvironmentExistsDropsError(cfg, exists, getFails, createFails) ==
    IF GetEnvironment(exists, getFails) = "ok"
    THEN [err |-> "none", create |-> "none"]
    ELSE IF cfg.dryRun
    THEN [err |-> "none", create |-> "none"]
    ELSE IF createFails
    THEN [err |-> "none", create |-> "failed"]
    ELSE [err |-> "none", create |-> "ok"]

\* ensureEnvironmentExists that only looks and never creates
ensureEnvironmentExistsNeverCreates(cfg, exists, getFails, createFails) ==
    [err |-> "none", create |-> "none"]

\* ensureEnvironmentExists reporting a missing environment as an error in a
\* dry run
ensureEnvironmentExistsDryRunFails(cfg, exists, getFails, createFails) ==
    IF GetEnvironment(exists, getFails) = "ok"
    THEN [err |-> "none", create |-> "none"]
    ELSE IF cfg.dryRun
    THEN [err |-> "environment not found", create |-> "none"]
    ELSE IF createFails
    THEN [err |-> "failed to create environment", create |-> "failed"]
    ELSE [err |-> "none", create |-> "ok"]

\* ensureEnvironmentExists: GetEnvironment, then CreateEnvironment when the
\* read gave an error and the run is not a dry run.  exists: the environment
\* is in the target repository.  CreateEnvironment is a PUT, which the
\* platform accepts for an existing environment too.
ensureEnvironmentExists(cfg, exists, getFails, createFails) ==
    IF GetEnvironment(exists, getFails) = "ok"
    THEN [err |-> "none", create |-> "none"]
    ELSE IF cfg.dryRun
    THEN [err |-> "none", create |-> "none"]
    ELSE IF createFails
    THEN [err |-> "failed to create environment", create |-> "failed"]
    ELSE [err |-> "none", create |-> "ok"]

\* the calls ensureEnvironmentExists issues
EnsureCalls(env, exists, getFails, en) ==
    <<Call("target", "GetEnvironment", env, "", GetEnvironment(exists, getFails),
           exists)>>
    \o (IF en.create = "none" THEN <<>>
        ELSE <<Call("target", "CreateEnvironment", env, "",
                    IF en.create = "ok" THEN "ok" ELSE "error", exists)>>)

\* a listing of the source
ListCall(op, scope, listFails) ==
    Call("source", op, scope, "", IF listFails THEN "error" ELSE "ok", TRUE)

-----------------------------------------------------------------------------
(* State *)

NoOutcome == [e \in Entities |-> "none"]

NoEnvVars == [n \in EnvVarNames |-> Absent]

\* no write was sent for an organization variable
NoBody ==
    [visibility |-> "none", idsSent |-> FALSE, ids |-> {},
     variable |-> [visibility |-> "none", selectedRepositoryIDs |-> {}]]

NoneSent == [n \in OrgVarNames |-> NoBody]

\* the target, as one value
Target == [vars |-> tgtVars, envs |-> tgtEnvs, envVars |-> tgtEnvVars]

\* the run so far, as one value
ThisRun == [config |-> config, result |-> result, outcome |-> outcome,
            calls |-> calls, summary |-> summary, pc |-> pc, before |-> tgtBefore]

\* the configurations of a run; only the organization mode knows a visibility
\* override (config.validateOrgToOrg), "" when the operator gave none
Configs ==
    { c \in [mode : Modes, dryRun : BOOLEAN, force : BOOLEAN, skipEnvs : BOOLEAN,
             orgVisibility : {""}] :
        c.mode = ModeOrgToOrg => ~c.skipEnvs }

\* the configuration, the source and the target a run meets
World ==
    /\ config \in Configs
    /\ srcVars \in Listings(VarNames(config.mode))
    /\ tgtVars \in [VarNames(config.mode) -> {Absent, "old"}]
    /\ srcEnvs \in IF config.mode = ModeRepoToRepo THEN EnvListings ELSE {<<>>}
    /\ srcEnvVars \in
         { f \in [Envs -> Listings(EnvVarNames)] :
             \A e \in Envs :
                (\A i \in DOMAIN srcEnvs : srcEnvs[i] # e) => f[e] = <<>> }
    /\ tgtEnvs \in SUBSET { srcEnvs[i] : i \in DOMAIN srcEnvs }
    /\ tgtEnvVars \in
         { f \in [Envs -> [EnvVarNames -> {Absent, "old"}]] :
             \A e \in Envs : e \notin tgtEnvs => f[e] = NoEnvVars }

\* a run that has done nothing yet
Fresh ==
    /\ idx = 1
    /\ envIdx = 1
    /\ envVarIdx = 1
    /\ result = MigrationResult
    /\ summary = <<>>
    /\ calls = <<>>
    /\ outcome = NoOutcome
    /\ sent = NoneSent
    /\ failures = 0
    /\ run = "first"
    /\ tgtBefore = Target
    /\ prev = ThisRun

\* what runMigration returned: nil ("ok") or an error with its message, the
\* side the message names and the number of errors it reports
Exit(code, msg, role) == [code |-> code, msg |-> msg, role |-> role, errors |-> 0]

NoExit == Exit("none", "", "")

\* every organization variable of the source is visible to all repositories
PlainOrg ==
    /\ srcVis = [n \in OrgVarNames |-> "all"]
    /\ srcSelected = [n \in OrgVarNames |-> {}]
    /\ tgtRepos = {}

\* no command around the run: both credentials are accepted and expose no
\* scopes
NoCommand ==
    /\ creds = [s \in Sides |-> Credential(TRUE, <<>>)]
    /\ exit = NoExit

\* the source client knows no rate limit yet
NoThrottle ==
    /\ rateLimit = NoRateLimitInfo
    /\ now = 0
    /\ slept = <<>>

NoScopeCheck == scopeCheck = [granted |-> <<>>, required |-> "repo", satisfied |-> FALSE]

NoRequest == request = [responses |-> <<>>, attempts |-> 0, returned |-> "none"]

\* the command was given valid flags and migrator.New has not been called
NoConfiguration ==
    /\ flags = Flags("a", "a", "b", "b", FALSE)
    /\ validation = [cfg |-> NilConfig, sourceClient |-> TRUE, targetClient |-> TRUE,
                     err |-> "none", built |-> FALSE]

\* Migrator.Run is about to be called
Init ==
    /\ pc = "start"
    /\ World
    /\ PlainOrg
    /\ NoCommand
    /\ NoThrottle
    /\ NoScopeCheck
    /\ NoRequest
    /\ NoConfiguration
    /\ Fresh

source == <<srcVars, srcEnvs, srcEnvVars>>

target == <<tgtVars, tgtEnvs, tgtEnvVars>>

loops == <<idx, envIdx, envVarIdx>>

history == <<run, prev, tgtBefore>>

organization == <<srcVis, srcSelected, tgtRepos>>

command == <<creds, exit>>

throttle == <<rateLimit, now, slept>>

units == <<scopeCheck, request, flags, validation>>

-----------------------------------------------------------------------------
(* Migrator.Run *)

\* a summary whose total counts the failures too
PrintSummaryCountsErrors(r) ==
    [created |-> r.created, updated |-> r.updated, skipped |-> r.skipped,
     total |-> r.created + r.updated + r.skipped + Len(r.errors),
     errors |-> Len(r.errors)]

\* logger.PrintSummary as Run calls it: the three counters, their total and
\* the number of errors
PrintSummary(r) ==
    [created |-> r.created, updated |-> r.updated, skipped |-> r.skipped,
     total |-> r.created + r.updated + r.skipped, errors |-> Len(r.errors)]

\* Run up to the source listing of migrateOrgToOrg / migrateRepoToRepo: a
\* listing that fails ends the run with a fatal error.  migrateOrgToOrg lets
\* the source client wait for its rate limit first
RunStart(listFails) ==
    /\ pc = "start"
    /\ failures + (IF listFails THEN 1 ELSE 0) <= MaxFailures
    /\ failures' = failures + (IF listFails THEN 1 ELSE 0)
    /\ calls' = Append(calls, ListCall("ListVariables", Top, listFails))
    /\ pc' = IF listFails THEN "fatal" ELSE "vars"
    /\ LET d == IF config.mode = ModeOrgToOrg
                THEN waitForRateLimit(rateLimit, minRemainingRequests, now)
                ELSE <<>>
       IN /\ slept' = d
          /\ now' = IF d = <<>> THEN now ELSE now + d[1]
    /\ UNCHANGED <<config, source, target, loops, result, summary, outcome, history>>
    /\ UNCHANGED <<organization, command, units, sent, rateLimit>>

\* one turn of the loop of migrateOrgToOrg / migrateRepoVariables; in the
\* organization mode the variable's visibility is prepared first
MigrateTopVariable(readFails, writeFails, listFails, repoFails) ==
    /\ pc = "vars"
    /\ idx <= Len(srcVars)
    /\ LET name == srcVars[idx]
           org == config.mode = ModeOrgToOrg
           variable == IF org
                       THEN OrgVariable(name, srcVis[name], srcSelected[name],
                                        tgtRepos, listFails, repoFails)
                       ELSE OrgVariable(name, "all", {}, {}, FALSE, {})
           m == migrateOne(config, tgtVars[name], TRUE, result, readFails, writeFails,
                           Failure("variable", Top, name))
           used == Injected(m, readFails, writeFails)
                   + ResolveInjected(variable, listFails, repoFails)
       IN /\ listFails => variable.resolved
          /\ repoFails \subseteq Range(variable.looked)
          /\ failures + used <= MaxFailures
          /\ failures' = failures + used
          /\ tgtVars' = [tgtVars EXCEPT ![name] = m.value]
          /\ result' = m.result
          /\ calls' = calls \o ResolveCalls(variable, tgtRepos, repoFails)
                            \o VariableCalls(Top, name, m, TRUE)
          /\ sent' = IF org /\ m.write # "none"
                     THEN [sent EXCEPT ![name] = OrgVariableBody(variable)]
                     ELSE sent
          /\ outcome' = [outcome EXCEPT ![<<Top, name>>] = OutcomeOf(result, m.result)]
          /\ idx' = NextTurn(idx, Len(srcVars), m.err)
    /\ UNCHANGED <<config, source, tgtEnvs, tgtEnvVars, pc, envIdx, envVarIdx,
                   summary, history>>
    /\ UNCHANGED <<organization, command, units, throttle>>

\* the end of the loop: migrateOrgToOrg returns; migrateRepoToRepo goes on to
\* migrateAllEnvironments unless environments are skipped, and records its
\* error when the listing of the source environments fails
migrateAllEnvironments(listFails) ==
    /\ pc = "vars"
    /\ idx > Len(srcVars)
    /\ IF config.mode = ModeOrgToOrg \/ config.skipEnvs
       THEN /\ pc' = "return"
            /\ UNCHANGED <<failures, calls, result>>
       ELSE /\ failures + (IF listFails THEN 1 ELSE 0) <= MaxFailures
            /\ failures' = failures + (IF listFails THEN 1 ELSE 0)
            /\ calls' = Append(calls, ListCall("ListEnvironments", Top, listFails))
            /\ result' = IF listFails
                         THEN AddError(result, Failure("environments", Top, ""))
                         ELSE result
            /\ pc' = IF listFails \/ Len(srcEnvs) = 0 THEN "return" ELSE "envs"
    /\ UNCHANGED <<config, source, target, loops, summary, outcome, history>>
    /\ UNCHANGED <<organization, command, units, throttle, sent>>

\* migrateEnvironment up to its loop: provision the environment, list its
\* source variables; an error of either is appended by migrateAllEnvironments
migrateEnvironment(getFails, createFails, listFails) ==
    /\ pc = "envs"
    /\ envIdx <= Len(srcEnvs)
    /\ LET env == srcEnvs[envIdx]
           exists == env \in tgtEnvs
           en == ensureEnvironmentExists(config, exists, getFails, createFails)
           listed == en.err = "none"
           used == (IF getFails THEN 1 ELSE 0)
                   + (IF en.create # "none" /\ createFails THEN 1 ELSE 0)
                   + (IF listed /\ listFails THEN 1 ELSE 0)
       IN /\ failures + used <= MaxFailures
          /\ failures' = failures + used
          /\ tgtEnvs' = IF en.create = "ok" THEN tgtEnvs \cup {env} ELSE tgtEnvs
          /\ calls' = calls \o EnsureCalls(env, exists, getFails, en)
                      \o (IF listed THEN <<ListCall("ListVariables", env, listFails)>>
                          ELSE <<>>)
          /\ IF en.err # "none" \/ listFails
             THEN /\ result' = AddError(result, Failure("environment", env, ""))
                  /\ envIdx' = NextTurn(envIdx, Len(srcEnvs),
                                        IF en.err # "none" THEN en.err
                                        ELSE "failed to list environment variables")
                  /\ UNCHANGED <<pc, envVarIdx>>
             ELSE /\ pc' = "envvars"
                  /\ envVarIdx' = 1
                  /\ UNCHANGED <<result, envIdx>>
    /\ UNCHANGED <<config, source, tgtVars, tgtEnvVars, idx, summary, outcome, history>>
    /\ UNCHANGED <<organization, command, units, throttle, sent>>

\* one turn of the loop of migrateEnvironment
MigrateEnvVar(readFails, writeFails) ==
    /\ pc = "envvars"
    /\ envVarIdx <= Len(srcEnvVars[srcEnvs[envIdx]])
    /\ LET env == srcEnvs[envIdx]
           name == srcEnvVars[env][envVarIdx]
           m == migrateOne(config, tgtEnvVars[env][name], env \in tgtEnvs, result,
                           readFails, writeFails, Failure("envvar", env, name))
       IN /\ failures + Injected(m, readFails, writeFails) <= MaxFailures
          /\ failures' = failures + Injected(m, readFails, writeFails)
          /\ tgtEnvVars' = [tgtEnvVars EXCEPT ![env][name] = m.value]
          /\ result' = m.result
          /\ calls' = calls \o VariableCalls(env, name, m, env \in tgtEnvs)
          /\ outcome' = [outcome EXCEPT ![<<env, name>>] = OutcomeOf(result, m.result)]
          /\ envVarIdx' = NextTurn(envVarIdx, Len(srcEnvVars[env]), m.err)
    /\ UNCHANGED <<config, source, tgtVars, tgtEnvs, pc, idx, envIdx, summary, history>>
    /\ UNCHANGED <<organization, command, units, throttle, sent>>

\* the end of the loop of migrateEnvironment: on to the next environment
EnvironmentDone ==
    /\ pc = "envvars"
    /\ envVarIdx > Len(srcEnvVars[srcEnvs[envIdx]])
    /\ pc' = "envs"
    /\ envIdx' = NextTurn(envIdx, Len(srcEnvs), "none")
    /\ UNCHANGED <<config, source, target, idx, envVarIdx, result, summary, calls,
                   outcome, failures, history>>
    /\ UNCHANGED <<organization, command, units, throttle, sent>>

\* the end of the loop of migrateAllEnvironments
EnvironmentsDone ==
    /\ pc = "envs"
    /\ envIdx > Len(srcEnvs)
    /\ pc' = "return"
    /\ UNCHANGED <<config, source, target, loops, result, summary, calls, outcome,
                   failures, history>>
    /\ UNCHANGED <<organization, command, units, throttle, sent>>

\* the tail of Run after the mode's function returned without error: print
\* the summary and return the result
RunReturn ==
    /\ pc = "return"
    /\ summary' = Append(summary, PrintSummary(result))
    /\ pc' = "done"
    /\ UNCHANGED <<config, source, target, loops, result, calls, outcome, failures,
                   history>>
    /\ UNCHANGED <<organization, command, units, throttle, sent>>

\* the operator runs the same migration again, for real
Rerun ==
    /\ pc = "done"
    /\ run = "first"
    /\ run' = "second"
    /\ prev' = ThisRun
    /\ tgtBefore' = Target
    /\ config' = [config EXCEPT !.dryRun = FALSE]
    /\ pc' = "start"
    /\ idx' = 1
    /\ envIdx' = 1
    /\ envVarIdx' = 1
    /\ result' = MigrationResult
    /\ summary' = <<>>
    /\ calls' = <<>>
    /\ outcome' = NoOutcome
    /\ sent' = NoneSent
    /\ UNCHANGED <<source, target, failures>>
    /\ UNCHANGED <<organization, command, units, throttle>>

\* the steps of one run
Migrate ==
    \/ \E listFails \in BOOLEAN : RunStart(listFails)
    \/ \E readFails, writeFails, listFails \in BOOLEAN, repoFails \in SUBSET RepoNames :
          MigrateTopVariable(readFails, writeFails, listFails, repoFails)
    \/ \E listFails \in BOOLEAN : migrateAllEnvironments(listFails)
    \/ \E getFails, createFails, listFails \in BOOLEAN :
          migrateEnvironment(getFails, createFails, listFails)
    \/ \E readFails, writeFails \in BOOLEAN : MigrateEnvVar(readFails, writeFails)
    \/ EnvironmentDone
    \/ EnvironmentsDone
    \/ RunReturn

Next ==
    \/ Migrate
    \/ Rerun

Spec == Init /\ [][Next]_vars

-----------------------------------------------------------------------------
(* Organization migrations over every visibility *)

\* the configurations of an organization migration, with or without a
\* visibility override
OrgConfigs ==
    [mode : {ModeOrgToOrg}, dryRun : BOOLEAN, force : BOOLEAN, skipEnvs : {FALSE},
     orgVisibility : Visibilities]

\* the listings of source organization variables: A before B
OrgListings == {<<>>, <<"A">>, <<"A", "B">>}

InitOrg ==
    /\ pc = "start"
    /\ config \in OrgConfigs
    /\ srcVars \in OrgListings
    /\ tgtVars \in [OrgVarNames -> {Absent, "old"}]
    /\ srcEnvs = <<>>
    /\ srcEnvVars = [e \in Envs |-> <<>>]
    /\ tgtEnvs = {}
    /\ tgtEnvVars = [e \in Envs |-> NoEnvVars]
    /\ srcVis \in
         { f \in [OrgVarNames -> Visibilities] :
             \A n \in OrgVarNames : n \notin Range(srcVars) => f[n] = "all" }
    /\ srcSelected \in
         { f \in [OrgVarNames -> SUBSET RepoNames] :
             \A n \in OrgVarNames : srcVis[n] # "selected" => f[n] = {} }
    /\ tgtRepos \in SUBSET RepoNames
    /\ NoCommand
    /\ NoThrottle
    /\ NoScopeCheck
    /\ NoRequest
    /\ NoConfiguration
    /\ Fresh

\* the steps of a run in the organization mode
NextOrg ==
    \/ \E listFails \in BOOLEAN : RunStart(listFails)
    \/ \E readFails, writeFails, listFails \in BOOLEAN, repoFails \in SUBSET RepoNames :
          MigrateTopVariable(readFails, writeFails, listFails, repoFails)
    \/ migrateAllEnvironments(FALSE)
    \/ RunReturn

SpecOrg == InitOrg /\ [][NextOrg]_vars

-----------------------------------------------------------------------------
(* The command: cmd.runMigration *)

\* the scopes the credentials of the model carry
TokenScopes == {"admin:org", "repo", "read:org", "public_repo"}

\* the credentials: one the platform rejects, and accepted ones that expose
\* no scope or one scope
Credentials ==
    {Credential(FALSE, <<>>)}
    \cup { Credential(TRUE, h) : h \in {<<>>} \cup { <<t>> : t \in TokenScopes } }

\* the listings of source environments of a migration started by the command
CmdEnvListings == {<<>>, <<"staging">>}

\* the command has been invoked and nothing has happened yet
InitCmd ==
    /\ pc = "tokens"
    /\ World
    /\ srcEnvs \in CmdEnvListings
    /\ PlainOrg
    /\ creds \in [Sides -> Credentials]
    /\ exit = NoExit
    /\ NoThrottle
    /\ NoScopeCheck
    /\ NoRequest
    /\ NoConfiguration
    /\ Fresh

\* resolveTokens and createClients: a token resolved for one side only is an
\* error, and so is falling back to a GitHub CLI that is not logged in
ResolveTokens(resolved, cli) ==
    /\ pc = "tokens"
    /\ IF resolved = "one"
       THEN /\ pc' = "failed"
            /\ exit' = Exit("error", "authentication required", "")
       ELSE IF resolved = "neither" /\ ~cli
       THEN /\ pc' = "failed"
            /\ exit' = Exit("error", "failed to create client", "source")
       ELSE /\ pc' = "auth"
            /\ exit' = exit
    /\ UNCHANGED <<config, source, target, loops, result, summary, calls, outcome,
                   failures, history, organization, sent, creds, throttle, units>>

\* validateAuth asking the target even after the source was rejected
validateAuthChecksBoth(cr, srcFails, tgtFails) ==
    IF ~cr["source"].valid \/ srcFails
    THEN [err |-> "authentication failed", role |-> "source", target |-> TRUE]
    ELSE IF ~cr["target"].valid \/ tgtFails
    THEN [err |-> "authentication failed", role |-> "target", target |-> TRUE]
    ELSE [err |-> "none", role |-> "", target |-> TRUE]

\* validateAuth: GetUser with the source client, then with the target client;
\* the error returned and the side it names, and whether each call was made
validateAuth(cr, srcFails, tgtFails) ==
    IF ~cr["source"].valid \/ srcFails
    THEN [err |-> "authentication failed", role |-> "source", target |-> FALSE]
    ELSE IF ~cr["target"].valid \/ tgtFails
    THEN [err |-> "authentication failed", role |-> "target", target |-> TRUE]
    ELSE [err |-> "none", role |-> "", target |-> TRUE]

\* the calls of a pre-flight check v of operation op: the source always, the
\* target when the source passed; srcOk, tgtOk: the request was answered
PreflightCalls(op, v, srcOk, tgtOk) ==
    <<Call("source", op, Top, "", IF srcOk THEN "ok" ELSE "error", TRUE)>>
    \o (IF v.target
        THEN <<Call("target", op, Top, "", IF tgtOk THEN "ok" ELSE "error", TRUE)>>
        ELSE <<>>)

\* failures injected into a pre-flight check
PreflightInjected(v, srcFails, tgtFails) ==
    (IF srcFails THEN 1 ELSE 0) + (IF v.target /\ tgtFails THEN 1 ELSE 0)

ValidateAuth(srcFails, tgtFails) ==
    /\ pc = "auth"
    /\ LET v == validateAuth(creds, srcFails, tgtFails)
       IN /\ failures + PreflightInjected(v, srcFails, tgtFails) <= MaxFailures
          /\ failures' = failures + PreflightInjected(v, srcFails, tgtFails)
          /\ calls' = calls \o PreflightCalls("GetUser", v,
                                               creds["source"].valid /\ ~srcFails,
                                               creds["target"].valid /\ ~tgtFails)
          /\ pc' = IF v.err = "none" THEN "permissions" ELSE "failed"
          /\ exit' = IF v.err = "none" THEN exit ELSE Exit("error", v.err, v.role)
    /\ UNCHANGED <<config, source, target, loops, result, summary, outcome, history,
                   organization, sent, creds, throttle, units>>

\* validatePermissions checking the source credential only
validatePermissionsSourceOnly(mode, cr, srcFails, tgtFails) ==
    LET src == IF mode = ModeOrgToOrg
               THEN ValidateOrgScopes(cr["source"].header, srcFails)
               ELSE ValidateRepoScopes(cr["source"].header, srcFails)
    IN IF src # "none" THEN [err |-> src, role |-> "source", target |-> FALSE]
       ELSE [err |-> "none", role |-> "", target |-> FALSE]

\* validatePermissions: by mode, ValidateOrgScopes or ValidateRepoScopes of the
\* source client, then of the target client; the first error is returned
validatePermissions(mode, cr, srcFails, tgtFails) ==
    LET src == IF mode = ModeOrgToOrg
               THEN ValidateOrgScopes(cr["source"].header, srcFails)
               ELSE ValidateRepoScopes(cr["source"].header, srcFails)
        tgt == IF mode = ModeOrgToOrg
               THEN ValidateOrgScopes(cr["target"].header, tgtFails)
               ELSE ValidateRepoScopes(cr["target"].header, tgtFails)
    IN IF src # "none" THEN [err |-> src, role |-> "source", target |-> FALSE]
       ELSE IF tgt # "none" THEN [err |-> tgt, role |-> "target", target |-> TRUE]
       ELSE [err |-> "none", role |-> "", target |-> TRUE]

\* runMigration from the capability check to the call of Run; the
\* configuration handed to migrator.New is a valid one
ValidatePermissions(srcFails, tgtFails) ==
    /\ pc = "permissions"
    /\ LET v == validatePermissions(config.mode, creds, srcFails, tgtFails)
       IN /\ failures + PreflightInjected(v, srcFails, tgtFails) <= MaxFailures
          /\ failures' = failures + PreflightInjected(v, srcFails, tgtFails)
          /\ calls' = calls \o PreflightCalls("GetTokenScopes", v, ~srcFails, ~tgtFails)
          /\ pc' = IF v.err = "none" THEN "start" ELSE "failed"
          /\ exit' = IF v.err = "none" THEN exit ELSE Exit("error", v.err, v.role)
    /\ UNCHANGED <<config, source, target, loops, result, summary, outcome, history,
                   organization, sent, creds, throttle, units>>

\* a command that reports success whenever Run returned no error
runMigrationExitIgnoresErrors(fatal, r) ==
    IF fatal THEN Exit("error", "migration failed", "")
    ELSE Exit("ok", "", "")

\* what runMigration returns once Run has returned: "migration failed: ..."
\* for the error of Run, "migration completed with %d error(s)" when the
\* result has errors, nil otherwise
runMigrationExit(fatal, r) ==
    IF fatal THEN Exit("error", "migration failed", "")
    ELSE IF HasErrors(r)
    THEN [Exit("error", "migration completed with errors", "")
             EXCEPT !.errors = Len(r.errors)]
    ELSE Exit("ok", "", "")

\* the tail of runMigration: the error of Run, or an error when the result
\* has errors, or nil
RunMigrationReturn ==
    /\ pc \in {"done", "fatal"}
    /\ exit = NoExit
    /\ exit' = runMigrationExit(pc = "fatal", result)
    /\ UNCHANGED <<config, source, target, pc, loops, result, summary, calls, outcome,
                   failures, history, organization, sent, creds, throttle, units>>

NextCmd ==
    \/ \E resolved \in {"both", "neither", "one"}, cli \in BOOLEAN :
          ResolveTokens(resolved, cli)
    \/ \E srcFails, tgtFails \in BOOLEAN : ValidateAuth(srcFails, tgtFails)
    \/ \E srcFails, tgtFails \in BOOLEAN : ValidatePermissions(srcFails, tgtFails)
    \/ Migrate
    \/ RunMigrationReturn

SpecCmd == InitCmd /\ [][NextCmd]_vars

-----------------------------------------------------------------------------
(* hasScope alone *)

\* granted scopes of a token, at most
MaxScopes == 2

\* the lists of granted scopes
ScopeLists == UNION { [1..n -> Scopes] : n \in 0..MaxScopes }

\* no migration is under way
NoRun ==
    /\ config = [mode |-> ModeRepoToRepo, dryRun |-> FALSE, force |-> FALSE,
                 skipEnvs |-> FALSE, orgVisibility |-> ""]
    /\ srcVars = <<>>
    /\ tgtVars = [n \in RepoVarNames |-> Absent]
    /\ srcEnvs = <<>>
    /\ srcEnvVars = [e \in Envs |-> <<>>]
    /\ tgtEnvs = {}
    /\ tgtEnvVars = [e \in Envs |-> NoEnvVars]
    /\ PlainOrg
    /\ Fresh

InitScopes ==
    /\ pc = "hasScope"
    /\ NoRun
    /\ NoCommand
    /\ NoThrottle
    /\ NoRequest
    /\ NoConfiguration
    /\ scopeCheck \in [granted : ScopeLists, required : Scopes, satisfied : {FALSE}]

\* one call of hasScope
HasScope ==
    /\ pc = "hasScope"
    /\ scopeCheck' = [scopeCheck EXCEPT
                        !.satisfied = hasScope(scopeCheck.granted, scopeCheck.required)]
    /\ pc' = "returned"
    /\ UNCHANGED <<config, source, target, loops, result, summary, calls, outcome,
                   failures, history, organization, sent, command, throttle, request,
                   flags, validation>>

SpecScopes == InitScopes /\ [][HasScope]_vars

-----------------------------------------------------------------------------
(* The throttle alone *)

\* the latest time of the clock and of a reset
MaxTime == 3

\* the rate-limit states of a client: from exhausted to just above the
\* threshold
RateLimitInfos ==
    [limit : {5000}, remaining : 0..(minRemainingRequests + 1), resetTime : 0..MaxTime]

InitRateLimit ==
    /\ pc = "throttle"
    /\ NoRun
    /\ NoCommand
    /\ NoScopeCheck
    /\ NoRequest
    /\ NoConfiguration
    /\ rateLimit \in RateLimitInfos \cup {NoRateLimitInfo}
    /\ now \in 0..MaxTime
    /\ slept = <<>>

\* Client.WaitForRateLimit: the throttle on the client's own rate-limit state,
\* with the reserved threshold and the real sleep
WaitForRateLimit ==
    /\ pc = "throttle"
    /\ LET d == waitForRateLimit(rateLimit, minRemainingRequests, now)
       IN /\ slept' = d
          /\ now' = IF d = <<>> THEN now ELSE now + d[1]
    /\ pc' = "throttled"
    /\ UNCHANGED <<config, source, target, loops, result, summary, calls, outcome,
                   failures, history, organization, sent, command, units, rateLimit>>

SpecRateLimit == InitRateLimit /\ [][WaitForRateLimit]_vars

-----------------------------------------------------------------------------
(* One call of a client method alone *)

\* the answers the platform has ready for successive attempts of one call, at
\* most
MaxResponses == 3

\* what an attempt can meet: success, the transient conditions (a network
\* timeout, a 5xx, a rate-limit response) and the lasting ones (another 4xx, a
\* response that does not decode)
Transient == {"timeout", "5xx", "ratelimit"}

NonTransient == {"4xx", "malformed"}

Responses == {"ok"} \cup Transient \cup NonTransient

\* c.restClient.Get / Post / Patch / Put / Request as the client's methods use
\* it: the request is sent once and whatever it meets is what the method
\* returns, wrapped; no method looks at the kind of the error or calls again
restClientDo(responses) ==
    [responses |-> responses, attempts |-> 1, returned |-> responses[1]]

InitRequest ==
    /\ pc = "request"
    /\ NoRun
    /\ NoCommand
    /\ NoThrottle
    /\ NoScopeCheck
    /\ NoConfiguration
    /\ request \in [responses : [1..MaxResponses -> Responses],
                    attempts : {0}, returned : {"none"}]

\* one call of a method of Client (ListOrgVariables, GetOrgVariable,
\* CreateOrgVariable, ...)
ClientCall ==
    /\ pc = "request"
    /\ request' = restClientDo(request.responses)
    /\ pc' = "responded"
    /\ UNCHANGED <<config, source, target, loops, result, summary, calls, outcome,
                   failures, history, organization, sent, command, throttle,
                   scopeCheck, flags, validation>>

SpecRequest == InitRequest /\ [][ClientCall]_vars

-----------------------------------------------------------------------------
(* migrator.New alone *)

\* the values of a coordinate: missing or given
Coordinates == {"", "a"}

\* the configurations handed to Validate
ValidatedConfigs ==
    {NilConfig}
    \cup { Config(m, so, sr, sg, to, tr, tg, se, te, vis) :
             m \in {"repo-to-repo", "org-to-org", ModeEnvOnly, ModeUnknown},
             so \in Coordinates, sr \in Coordinates, sg \in Coordinates,
             to \in Coordinates, tr \in Coordinates, tg \in Coordinates,
             se \in Coordinates, te \in Coordinates,
             vis \in {"", "selected", "public"} }

InitNew ==
    /\ pc = "new"
    /\ NoRun
    /\ NoCommand
    /\ NoThrottle
    /\ NoScopeCheck
    /\ NoRequest
    /\ flags = Flags("a", "a", "b", "b", FALSE)
    /\ validation \in [cfg : ValidatedConfigs, sourceClient : BOOLEAN,
                       targetClient : BOOLEAN, err : {"none"}, built : {FALSE}]

\* one call of migrator.New
NewMigrator ==
    /\ pc = "new"
    /\ LET m == New(validation.cfg, validation.sourceClient, validation.targetClient)
       IN validation' = [validation EXCEPT !.err = m.err, !.built = m.built]
    /\ pc' = "constructed"
    /\ UNCHANGED <<config, source, target, loops, result, summary, calls, outcome,
                   failures, history, organization, sent, command, throttle,
                   scopeCheck, request, flags>>

SpecNew == InitNew /\ [][NewMigrator]_vars

-----------------------------------------------------------------------------
(* The command from its flags to migrator.New *)

\* the values of a flag that names a coordinate: not given, or one of two names
FlagValues == {"", "a", "b"}

\* detectMigrationMode
detectMigrationMode(f) == IF f.orgToOrg THEN ModeOrgToOrg ELSE ModeRepoToRepo

\* validateFlags (PreRunE) of the root command: the error it returns, and
\* whether it printed the help.  cmd.Help() prints and returns nil
validateFlags(f) ==
    IF f.sourceOrg = "" /\ f.targetOrg = "" THEN [err |-> "none", help |-> TRUE]
    ELSE IF f.sourceOrg = "" THEN [err |-> "--source-org flag is required", help |-> FALSE]
    ELSE IF f.targetOrg = "" THEN [err |-> "--target-org flag is required", help |-> FALSE]
    ELSE IF detectMigrationMode(f) = ModeOrgToOrg
    THEN IF f.sourceOrg = f.targetOrg
         THEN [err |-> "source and target organizations cannot be the same",
               help |-> FALSE]
         ELSE [err |-> "none", help |-> FALSE]
    ELSE IF f.sourceRepo = ""
    THEN [err |-> "--source-repo is required for repository migration", help |-> FALSE]
    ELSE IF f.targetRepo = ""
    THEN [err |-> "--target-repo is required for repository migration", help |-> FALSE]
    ELSE IF f.sourceOrg = f.targetOrg /\ f.sourceRepo = f.targetRepo
    THEN [err |-> "source and target repositories cannot be the same", help |-> FALSE]
    ELSE [err |-> "none", help |-> FALSE]

\* the configuration runMigration builds from the flags
ConfigOf(f) ==
    IF detectMigrationMode(f) = ModeOrgToOrg
    THEN Config(ModeOrgToOrg, "", "", f.sourceOrg, "", "", f.targetOrg, "", "", "")
    ELSE Config(ModeRepoToRepo, f.sourceOrg, f.sourceRepo, f.sourceOrg,
                f.targetOrg, f.targetRepo, f.targetOrg, "", "", "")

\* the command has been invoked with some flags
InitFlags ==
    /\ pc = "flags"
    /\ NoRun
    /\ NoThrottle
    /\ NoScopeCheck
    /\ NoRequest
    /\ exit = NoExit
    /\ creds \in [Sides -> {Credential(TRUE, <<>>), Credential(FALSE, <<>>)}]
    /\ flags \in { Flags(so, sr, to, tr, o2o) :
                     so \in FlagValues, sr \in FlagValues, to \in FlagValues,
                     tr \in FlagValues, o2o \in BOOLEAN }
    /\ validation = [cfg |-> NilConfig, sourceClient |-> TRUE, targetClient |-> TRUE,
                     err |-> "none", built |-> FALSE]

\* PreRunE: an error of validateFlags ends the command; otherwise RunE
\* (runMigration) is run
ValidateFlags ==
    /\ pc = "flags"
    /\ LET v == validateFlags(flags)
       IN /\ pc' = IF v.err = "none" THEN "tokens" ELSE "failed"
          /\ exit' = IF v.err = "none" THEN exit ELSE Exit("error", v.err, "")
    /\ config' = [config EXCEPT !.mode = detectMigrationMode(flags)]
    /\ UNCHANGED <<source, target, loops, result, summary, calls, outcome,
                   failures, history, organization, sent, creds, throttle, units>>

\* runMigration from the configuration it builds to migrator.New
NewFromFlags ==
    /\ pc = "start"
    /\ LET m == New(ConfigOf(flags), TRUE, TRUE)
       IN /\ validation' = [validation EXCEPT !.cfg = ConfigOf(flags),
                                              !.err = m.err, !.built = m.built]
          /\ pc' = IF m.built THEN "constructed" ELSE "failed"
          /\ exit' = IF m.built THEN exit
                     ELSE Exit("error", "failed to initialize migrator", "")
    /\ UNCHANGED <<config, source, target, loops, result, summary, calls, outcome,
                   failures, history, organization, sent, creds, throttle,
                   scopeCheck, request, flags>>

NextFlags ==
    \/ ValidateFlags
    \/ \E resolved \in {"both", "neither", "one"}, cli \in BOOLEAN :
          ResolveTokens(resolved, cli)
    \/ \E srcFails, tgtFails \in BOOLEAN : ValidateAuth(srcFails, tgtFails)
    \/ \E srcFails, tgtFails \in BOOLEAN : ValidatePermissions(srcFails, tgtFails)
    \/ NewFromFlags

SpecFlags == InitFlags /\ [][NextFlags]_vars

-----------------------------------------------------------------------------
(* ValidateOrgScopes and ValidateRepoScopes alone *)

\* the parts of a header value: a scope, or a blank between two commas
HeaderParts == {"", "repo", "admin:org", "read:org"}

\* the headers of the response to GET user
ScopesHeaders ==
    {ScopesHeader(FALSE, <<>>)}
    \cup { ScopesHeader(TRUE, parts) :
             parts \in UNION { [1..n -> HeaderParts] : n \in 0..MaxScopes } }

InitValidateScopes ==
    /\ pc = "validateScopes"
    /\ NoRun
    /\ NoCommand
    /\ NoThrottle
    /\ NoRequest
    /\ NoConfiguration
    /\ scopeCheck \in [header : ScopesHeaders, mode : Modes, fails : BOOLEAN,
                       err : {"none"}]

\* one call of ValidateOrgScopes (organization mode) or ValidateRepoScopes
ValidateTokenScopes ==
    /\ pc = "validateScopes"
    /\ scopeCheck' =
          [scopeCheck EXCEPT
             !.err = IF scopeCheck.mode = ModeOrgToOrg
                     THEN ValidateOrgScopes(HeaderGet(scopeCheck.header), scopeCheck.fails)
                     ELSE ValidateRepoScopes(HeaderGet(scopeCheck.header), scopeCheck.fails)]
    /\ pc' = "scopesValidated"
    /\ UNCHANGED <<config, source, target, loops, result, summary, calls, outcome,
                   failures, history, organization, sent, command, throttle, request,
                   flags, validation>>

SpecValidateScopes == InitValidateScopes /\ [][ValidateTokenScopes]_vars

-----------------------------------------------------------------------------
(* An organization migration beside another actor *)

\* the value another actor writes
Other == "other"

\* the configurations of a migration run beside another actor
RaceConfigs ==
    [mode : {ModeOrgToOrg}, dryRun : BOOLEAN, force : BOOLEAN, skipEnvs : {FALSE},
     orgVisibility : {""}]

InitRace ==
    /\ pc = "start"
    /\ config \in RaceConfigs
    /\ srcVars \in Listings(OrgVarNames)
    /\ tgtVars \in [OrgVarNames -> {Absent, "old"}]
    /\ srcEnvs = <<>>
    /\ srcEnvVars = [e \in Envs |-> <<>>]
    /\ tgtEnvs = {}
    /\ tgtEnvVars = [e \in Envs |-> NoEnvVars]
    /\ PlainOrg
    /\ NoCommand
    /\ NoThrottle
    /\ NoScopeCheck
    /\ NoRequest
    /\ NoConfiguration
    /\ Fresh

\* migrateOrgVariable up to the answer of GetOrgVariable
ReadTarget(readFails) ==
    /\ pc = "vars"
    /\ idx <= Len(srcVars)
    /\ failures + (IF readFails THEN 1 ELSE 0) <= MaxFailures
    /\ failures' = failures + (IF readFails THEN 1 ELSE 0)
    /\ calls' = Append(calls, Call("target", "GetVariable", Top, srcVars[idx],
                                   GetVariable(tgtVars[srcVars[idx]], readFails), TRUE))
    /\ pc' = "write"
    /\ UNCHANGED <<config, source, target, loops, result, summary, outcome, history>>
    /\ UNCHANGED <<organization, command, units, throttle, sent>>

\* another actor, or another run of the tool, creates a variable the target
\* does not have while this run is under way
OtherActorCreates(n) ==
    /\ pc \in {"vars", "write"}
    /\ tgtVars[n] = Absent
    /\ tgtVars' = [tgtVars EXCEPT ![n] = Other]
    /\ UNCHANGED <<config, source, tgtEnvs, tgtEnvVars, pc, loops, result, summary,
                   calls, outcome, failures, history>>
    /\ UNCHANGED <<organization, command, units, throttle, sent>>

\* migrateOrgVariable from the answer of GetOrgVariable on, and the loop's
\* handling of its error: the write meets the target as it is by now
WriteTarget(writeFails) ==
    /\ pc = "write"
    /\ LET name == srcVars[idx]
           m == appendError(
                   migrateVariableAfterRead(config, calls[Len(calls)].res, tgtVars[name],
                                            TRUE, result, writeFails),
                   Failure("variable", Top, name))
           used == IF m.write # "none" /\ writeFails THEN 1 ELSE 0
       IN /\ failures + used <= MaxFailures
          /\ failures' = failures + used
          /\ tgtVars' = [tgtVars EXCEPT ![name] = m.value]
          /\ result' = m.result
          /\ calls' = calls \o Tail(VariableCalls(Top, name, m, TRUE))
          /\ sent' = IF m.write # "none"
                     THEN [sent EXCEPT ![name] =
                             OrgVariableBody(OrgVariable(name, srcVis[name],
                                                         srcSelected[name], tgtRepos,
                                                         FALSE, {}))]
                     ELSE sent
          /\ outcome' = [outcome EXCEPT ![<<Top, name>>] = OutcomeOf(result, m.result)]
          /\ idx' = NextTurn(idx, Len(srcVars), m.err)
    /\ pc' = "vars"
    /\ UNCHANGED <<config, source, tgtEnvs, tgtEnvVars, envIdx, envVarIdx,
                   summary, history>>
    /\ UNCHANGED <<organization, command, units, throttle>>

NextRace ==
    \/ \E listFails \in BOOLEAN : RunStart(listFails)
    \/ \E readFails \in BOOLEAN : ReadTarget(readFails)
    \/ \E n \in OrgVarNames : OtherActorCreates(n)
    \/ \E writeFails \in BOOLEAN : WriteTarget(writeFails)
    \/ migrateAllEnvironments(FALSE)
    \/ RunReturn

SpecRace == InitRace /\ [][NextRace]_vars

-----------------------------------------------------------------------------
(* Vocabulary of the properties *)

WriteOps == {"CreateVariable", "UpdateVariable", "CreateEnvironment"}

VariableWrites == {"CreateVariable", "UpdateVariable"}

VariableOps == {"GetVariable", "CreateVariable", "UpdateVariable"}

Counted == {"created", "updated", "skipped"}

\* the positions of the log of calls cs that address entity <<scope, name>>
\* with one of the operations ops
CallsOf(cs, ops, scope, name) ==
    { i \in DOMAIN cs : cs[i].op \in ops /\ cs[i].scope = scope /\ cs[i].name = name }

\* no call of the log failed
NoCallFailed(cs) == \A i \in DOMAIN cs : cs[i].res # "error"

\* the names present in a scope of the target
Present(f) == { n \in DOMAIN f : f[n] # Absent }

-----------------------------------------------------------------------------
(* Properties *)

\* C2: a dry run issues no create-variable, update-variable or
\* create-environment call, whatever the mode, force and the contents of
\* source and target, and leaves the target as it found it.
DryRunNoWrites ==
    config.dryRun =>
        /\ \A i \in DOMAIN calls : calls[i].op \notin WriteOps
        /\ Target = tgtBefore

\* C2 witness: a dry run is over that counted a creation and an update and
\* met a source environment missing from the target.
DryRunNoWritesWitness ==
    /\ config.dryRun
    /\ pc = "done"
    /\ result.created > 0
    /\ \E i \in DOMAIN calls :
          calls[i].op = "GetEnvironment" /\ calls[i].res = "notfound"
    /\ \E i \in DOMAIN calls :
          calls[i].op = "GetVariable" /\ calls[i].res = "ok"

\* the per-variable failures of a result
VariableFailures(r) ==
    { i \in DOMAIN r.errors : r.errors[i].kind \in {"variable", "envvar"} }

\* the entities the run has processed so far
Processed == { e \in Entities : outcome[e] # "none" }

\* C6: processing one source variable changes the result in exactly one of
\* four ways (created+1, updated+1, skipped+1, or one failure appended with
\* no counter changed); so the counters plus the per-variable failures add up
\* to the number of variables processed so far, and Total() is the sum of the
\* three counters, failures excluded.
CounterInvariant ==
    /\ \A e \in Processed : outcome[e] \in Counted \cup {"failed"}
    /\ Total(result) = Cardinality({ e \in Processed : outcome[e] \in Counted })
    /\ Cardinality(VariableFailures(result))
          = Cardinality({ e \in Processed : outcome[e] = "failed" })
    /\ Total(result) + Cardinality(VariableFailures(result)) = Cardinality(Processed)

\* C6 witness: a run that has counted a variable and recorded the failure of
\* another.
CounterInvariantWitness ==
    /\ Total(result) > 0
    /\ VariableFailures(result) # {}
    /\ Cardinality(Processed) >= 2

\* C7: an organization-to-organization run in which every call succeeds, from
\* source names S against target names T, ends with created = |S \ T|, and
\* with updated = 0, skipped = |S \cap T| without force, updated = |S \cap T|,
\* skipped = 0 with force.
OrgOutcomeByNameSets ==
    (config.mode = ModeOrgToOrg /\ pc = "done" /\ NoCallFailed(calls)) =>
        LET S == Range(srcVars)
            T == Present(tgtBefore.vars)
        IN /\ result.created = Cardinality(S \ T)
           /\ result.updated = IF config.force THEN Cardinality(S \cap T) ELSE 0
           /\ result.skipped = IF config.force THEN 0 ELSE Cardinality(S \cap T)

\* C7 witness: source {A, B} against target {A} with force ends in 1/1/0.
OrgOutcomeByNameSetsWitness ==
    /\ config.mode = ModeOrgToOrg
    /\ pc = "done"
    /\ NoCallFailed(calls)
    /\ config.force
    /\ ~config.dryRun
    /\ Range(srcVars) = {"A", "B"}
    /\ Present(tgtBefore.vars) = {"A"}
    /\ result.created = 1 /\ result.updated = 1 /\ result.skipped = 0

\* the top-level loop of the run is over
VariablesDone == pc \in {"envs", "envvars", "return", "done"}

\* the loop over the source environments is over
AllEnvironmentsDone == pc \in {"return", "done"}

\* the loop over the variables of the source environment at position k is over
EnvironmentDoneAt(k) == AllEnvironmentsDone \/ (pc \in {"envs", "envvars"} /\ k < envIdx)

\* the run attempted the entity: it read its target state
Attempted(scope, name) == CallsOf(calls, {"GetVariable"}, scope, name) # {}

\* in a listing whose loop is over, every entity after a failed one was
\* attempted and ended in one counter or one failure
ContinuesAfterFailure(scope, listing) ==
    \A i, j \in DOMAIN listing :
        (i < j /\ outcome[<<scope, listing[i]>>] = "failed") =>
            /\ Attempted(scope, listing[j])
            /\ outcome[<<scope, listing[j]>>] \in Counted \cup {"failed"}

\* C5: when reconciling the i-th entity of a source listing ends in a
\* per-entity error, the entities after it are each still attempted and each
\* ends in exactly one counter increment or one recorded failure, and the run
\* returns its result without a fatal error.
PartialFailureContinues ==
    /\ (\E e \in Entities : outcome[e] = "failed") => pc # "fatal"
    /\ VariablesDone => ContinuesAfterFailure(Top, srcVars)
    /\ \A k \in DOMAIN srcEnvs :
          EnvironmentDoneAt(k) =>
              ContinuesAfterFailure(srcEnvs[k], srcEnvVars[srcEnvs[k]])

\* C5 witness: the run returned its result after the first of two variables
\* failed and the second was counted.
PartialFailureContinuesWitness ==
    /\ pc = "done"
    /\ Len(srcVars) = 2
    /\ outcome[<<Top, srcVars[1]>>] = "failed"
    /\ outcome[<<Top, srcVars[2]>>] \in Counted
    /\ Len(result.errors) = 1

\* C8: in repository-to-repository mode no read or write of a variable of a
\* target environment is issued while that environment does not exist in the
\* target repository, whatever dryRun and force are.
NoVariableCallOnMissingEnvironment ==
    \A i \in DOMAIN calls :
        (calls[i].op \in VariableOps /\ calls[i].scope \in Envs) => calls[i].envExisted

\* C9: a repository-to-repository run that is not a dry run, does not skip
\* environments and in which every call succeeds leaves every environment of
\* the source listing existing in the target, and the creation of an
\* environment that was missing precedes every create or update of a variable
\* in it.
EnvironmentsProvisionedFirst ==
    (/\ config.mode = ModeRepoToRepo
     /\ ~config.dryRun
     /\ ~config.skipEnvs
     /\ NoCallFailed(calls)) =>
        /\ pc = "done" => Range(srcEnvs) \subseteq tgtEnvs
        /\ \A j \in DOMAIN calls :
              (/\ calls[j].op \in VariableWrites
               /\ calls[j].scope \in Envs
               /\ calls[j].scope \notin tgtBefore.envs) =>
                  \E i \in DOMAIN calls :
                      /\ i < j
                      /\ calls[i].op = "CreateEnvironment"
                      /\ calls[i].scope = calls[j].scope
                      /\ calls[i].res = "ok"

\* C9 witness: source environments staging and prod, the target with
\* neither; after the run the target has both, and a variable was created in
\* one of them.
EnvironmentsProvisionedFirstWitness ==
    /\ config.mode = ModeRepoToRepo
    /\ ~config.dryRun
    /\ ~config.skipEnvs
    /\ NoCallFailed(calls)
    /\ pc = "done"
    /\ Range(srcEnvs) = {"staging", "prod"}
    /\ tgtBefore.envs = {}
    /\ tgtEnvs = {"staging", "prod"}
    /\ \E j \in DOMAIN calls :
          calls[j].op = "CreateVariable" /\ calls[j].scope \in Envs

\* the failures of the result that name environment e
FailuresNaming(e) == { k \in DOMAIN result.errors : result.errors[k].env = e }

\* the failed calls of the run that make environment e fail: its creation,
\* the listing of its source variables, a write of one of its variables
FailedCallsOf(e) ==
    { i \in DOMAIN calls :
        /\ calls[i].scope = e
        /\ calls[i].res = "error"
        /\ calls[i].op \in {"CreateEnvironment", "ListVariables"} \cup VariableWrites }

\* C10: a failed provisioning of environment e, a failed listing or a failed
\* reconciliation of its variables is appended to the failure list naming e;
\* every environment listed after e is still attempted; no variable of e is
\* written after a failed provisioning of e.
EnvironmentFailureIsolated ==
    /\ \A e \in Envs : Cardinality(FailuresNaming(e)) = Cardinality(FailedCallsOf(e))
    /\ AllEnvironmentsDone =>
          \A i, j \in DOMAIN srcEnvs :
              (i < j /\ FailuresNaming(srcEnvs[i]) # {}) =>
                  CallsOf(calls, {"GetEnvironment"}, srcEnvs[j], "") # {}
    /\ \A i, j \in DOMAIN calls :
          (i < j /\ calls[i].op = "CreateEnvironment" /\ calls[i].res = "error") =>
              ~(calls[j].op \in VariableWrites /\ calls[j].scope = calls[i].scope)

\* C10 witness: the provisioning of the first environment failed, and the
\* run went on to create a variable in the second.
EnvironmentFailureIsolatedWitness ==
    /\ pc = "done"
    /\ Len(srcEnvs) = 2
    /\ \E i \in DOMAIN calls :
          /\ calls[i].op = "CreateEnvironment"
          /\ calls[i].scope = srcEnvs[1]
          /\ calls[i].res = "error"
    /\ FailuresNaming(srcEnvs[1]) # {}
    /\ \E n \in EnvVarNames : outcome[<<srcEnvs[2], n>>] = "created"

\* the value of an entity in a target state
ValueIn(t, e) == IF e[1] = Top THEN t.vars[e[2]] ELSE t.envVars[e[1]][e[2]]

\* the entities the run read and found present in the target
FoundPresent ==
    { e \in Entities :
        \E i \in CallsOf(calls, {"GetVariable"}, e[1], e[2]) : calls[i].res = "ok" }

\* without force, a variable found in the target is counted as skipped, no
\* create or update is issued for it and its value stays
SkippedWithoutForce(e) ==
    ~config.force =>
        /\ outcome[e] = "skipped"
        /\ CallsOf(calls, VariableWrites, e[1], e[2]) = {}
        /\ ValueIn(Target, e) = ValueIn(tgtBefore, e)

\* C4 as stated: a variable present in the target when it is read is, without
\* force, counted as skipped with no update or create issued and its value
\* kept; with force and no dry run, exactly one update is issued for it and it
\* is counted as updated; no entity is counted as both skipped and updated.
ForceSemanticsAsStated ==
    \A e \in FoundPresent :
        /\ SkippedWithoutForce(e)
        /\ (config.force /\ ~config.dryRun) =>
              /\ Cardinality(CallsOf(calls, {"UpdateVariable"}, e[1], e[2])) = 1
              /\ outcome[e] = "updated"
        /\ outcome[e] # "other"

\* C4 amended: as stated, except that with force and no dry run the variable
\* is counted as updated when its one update succeeds, and recorded as a
\* failure with no counter incremented when that update fails.
ForceSemantics ==
    \A e \in FoundPresent :
        /\ SkippedWithoutForce(e)
        /\ (config.force /\ ~config.dryRun) =>
              /\ Cardinality(CallsOf(calls, {"UpdateVariable"}, e[1], e[2])) = 1
              /\ CallsOf(calls, {"CreateVariable"}, e[1], e[2]) = {}
              /\ \A i \in CallsOf(calls, {"UpdateVariable"}, e[1], e[2]) :
                    outcome[e] = IF calls[i].res = "ok" THEN "updated" ELSE "failed"
        /\ outcome[e] # "other"

\* C4 witness: with force, one variable found in the target was updated and
\* the update of another failed; the run is over.
ForceSemanticsWitness ==
    /\ pc = "done"
    /\ config.force
    /\ ~config.dryRun
    /\ \E e, f \in FoundPresent :
          /\ outcome[e] = "updated"
          /\ ValueIn(Target, e) = "new"
          /\ outcome[f] = "failed"

\* the second of two real runs of the same migration without force has
\* returned its result
SecondRealRunOver ==
    /\ run = "second"
    /\ pc = "done"
    /\ ~prev.config.dryRun
    /\ ~config.force

\* the entities the first run created or skipped without error
SucceededBefore == { e \in Entities : prev.outcome[e] \in {"created", "skipped"} }

\* the second run counts the entity as skipped and issues no write for it
SkippedAgain(e) ==
    /\ outcome[e] = "skipped"
    /\ CallsOf(calls, VariableWrites, e[1], e[2]) = {}

LeadingTo(e) ==
    { i \in DOMAIN calls :
        \/ calls[i].op = "ListVariables" /\ calls[i].scope \in {Top, e[1]}
        \/ calls[i].op = "ListEnvironments" /\ e[1] # Top
        \/ calls[i].op \in {"GetEnvironment", "CreateEnvironment"}
              /\ calls[i].scope = e[1]
        \/ calls[i].op = "GetVariable" /\ calls[i].scope = e[1]
              /\ calls[i].name = e[2] }

Counters(r) == <<r.created, r.updated, r.skipped>>

\* a dry run and then a real run of the same migration, from the same target
\* contents, have both returned their results
DryThenRealOver ==
    /\ run = "second"
    /\ pc = "done"
    /\ prev.pc = "done"
    /\ prev.config.dryRun
    /\ prev.before = tgtBefore

-----------------------------------------------------------------------------
(* Capability hierarchy *)

\* the sub-capabilities each broad capability is declared to imply
DeclaredChildren(g) ==
    CASE g = "admin:org" -> {"write:org", "read:org"}
      [] g = "repo" -> {"public_repo", "repo:status", "repo:deployment", "repo:invite"}
      [] OTHER -> {}

BroadScopes == {"admin:org", "repo"}

SubScopes == UNION { DeclaredChildren(b) : b \in BroadScopes }

\* C11: hasScope(granted, required) is true iff required is among the granted
\* scopes or some granted scope is a declared parent of it; a credential that
\* holds only sub-capabilities never satisfies a broad capability, and a
\* credential that holds only the other broad capability does not either.
CapabilityHierarchy ==
    pc = "returned" =>
        LET granted == Range(scopeCheck.granted)
            required == scopeCheck.required
        IN /\ scopeCheck.satisfied <=>
                  \/ required \in granted
                  \/ \E g \in granted : required \in DeclaredChildren(g)
           /\ (granted \subseteq SubScopes /\ required \in BroadScopes)
                  => ~scopeCheck.satisfied
           /\ (granted \subseteq BroadScopes \ {required} /\ required \in BroadScopes)
                  => ~scopeCheck.satisfied

\* hasScope returned false for a credential holding the sub-capabilities
\* read:org and public_repo, asked for repo
CapabilityHierarchyWitness ==
    /\ pc = "returned"
    /\ scopeCheck.granted = <<"read:org", "public_repo">>
    /\ scopeCheck.required = "repo"
    /\ ~scopeCheck.satisfied

-----------------------------------------------------------------------------
(* Capability validation in the command *)

\* the request that read the scopes of a side's credential was answered
ScopesRead(side, cs) ==
    \E j \in DOMAIN cs : cs[j] = Call(side, "GetTokenScopes", Top, "", "ok", TRUE)

\* the capability the mode requires
RequiredCapability == IF config.mode = ModeOrgToOrg THEN "admin:org" ELSE "repo"

\* the credential of a side exposes its scopes and the required capability is
\* not among them
Lacks(side) ==
    /\ creds[side].header # <<>>
    /\ RequiredCapability \notin Range(creds[side].header)

\* C12: when a credential exposes no scopes and the request that reads them
\* is answered, the validation of that side returns no error: the command
\* never fails naming that side, and when it is the target, validated last,
\* the command goes on to the migration.
UnknownScopesSkipValidation ==
    \A side \in Sides :
        (creds[side].header = <<>> /\ ScopesRead(side, calls))
            => /\ ~(exit.code = "error" /\ exit.role = side)
               /\ side = "target" => pc \notin {"permissions", "failed"}

\* both credentials expose no scopes and the migration ran and created a
\* variable in the target
UnknownScopesSkipValidationWitness ==
    /\ \A side \in Sides : creds[side].header = <<>> /\ ScopesRead(side, calls)
    /\ pc = "done"
    /\ \E i \in DOMAIN calls : calls[i].op = "CreateVariable" /\ calls[i].res = "ok"

\* C13: every create, update and create-environment call comes after the
\* scopes of both credentials were read and validated; when the known scopes
\* of either credential lack the capability the mode requires, the command
\* never gets past the capability check, issues no write, and when it stops
\* it has returned an error.
CapabilityCheckPrecedesMutation ==
    /\ \A i \in DOMAIN calls :
          calls[i].op \in WriteOps
              => \A side \in Sides : ScopesRead(side, SubSeq(calls, 1, i - 1))
    /\ \A side \in Sides :
          Lacks(side)
              => /\ pc \in {"tokens", "auth", "permissions", "failed"}
                 /\ \A i \in DOMAIN calls : calls[i].op \notin WriteOps
                 /\ pc = "failed" => exit.code = "error"

\* the target credential lacks the capability, the source credential does
\* not, and the command stopped on the target's missing scope
CapabilityCheckPrecedesMutationWitness ==
    /\ Lacks("target")
    /\ ~Lacks("source")
    /\ pc = "failed"
    /\ exit = Exit("error", "missing required scope", "target")
    /\ ScopesRead("source", calls)

-----------------------------------------------------------------------------
(* Visibility of the organization variables written *)

\* a real organization run sent a write for variable n
Written(n) ==
    /\ config.mode = ModeOrgToOrg
    /\ ~config.dryRun
    /\ sent[n] # NoBody

\* a real organization run has processed variable n, which was absent from
\* the target or may be overwritten
Due(n) ==
    /\ config.mode = ModeOrgToOrg
    /\ ~config.dryRun
    /\ outcome[<<Top, n>>] # "none"
    /\ (tgtBefore.vars[n] = Absent \/ config.force)

\* the target-side identifiers of the target repositories that bear the name
\* of a repository selected for n in the source
MatchedByName(n) == { RepoID("target", r) : r \in srcSelected[n] \cap tgtRepos }

\* C14: a 'selected' source variable none of whose selected repository names
\* is the name of a target repository is still written (created, or updated
\* under force), and the write carries visibility 'selected' with an
\* explicitly empty repository selection.
VisibilityFallback ==
    \A n \in OrgVarNames :
        (Due(n) /\ config.orgVisibility = "" /\ srcVis[n] = "selected"
                /\ srcSelected[n] \cap tgtRepos = {})
            => sent[n] = [visibility |-> "selected", idsSent |-> TRUE, ids |-> {}]

\* C15: the write sent for a source variable of visibility 'all' or 'private'
\* carries that visibility ('all' for a variable without one), and no
\* repository resolution is performed for it.
VisibilityPreserved ==
    \A n \in OrgVarNames :
        (config.orgVisibility = "" /\ srcVis[n] # "selected")
            => /\ Written(n) =>
                     sent[n].visibility = (IF srcVis[n] = "" THEN "all" ELSE srcVis[n])
               /\ CallsOf(calls, {"ListOrgVariableSelectedRepos"}, Top, n) = {}

\* C16: when no call fails, the repository identifiers sent for a 'selected'
\* source variable are exactly the target-side identifiers of the target
\* repositories named like one of its selected repositories; a name without
\* a match does not fail the variable; no source-side identifier is sent.
SelectionResolvedByName ==
    \A n \in OrgVarNames :
        (config.orgVisibility = "" /\ srcVis[n] = "selected" /\ NoCallFailed(calls))
            => /\ Written(n) => sent[n].ids = MatchedByName(n)
               /\ outcome[<<Top, n>>] # "failed"
               /\ \A r \in RepoNames : RepoID("source", r) \notin sent[n].ids

\* C17: when the configuration carries a visibility override, every
\* organization variable written carries the override as its visibility.
VisibilityOverrideWins ==
    \A n \in OrgVarNames :
        (config.orgVisibility # "" /\ Written(n))
            => sent[n].visibility = config.orgVisibility



\* the entities whose read of the target failed with an error other than
\* not-found
ReadFailed ==
    { e \in Entities :
        \E i \in CallsOf(calls, {"GetVariable"}, e[1], e[2]) : calls[i].res = "error" }

\* C18: an entity whose target read fails with an error other than not-found
\* is recorded as a failure, with no counter incremented and no create or
\* update issued for it; a create is issued only after a not-found answer.
FailedReadIsFailure ==
    /\ \A e \in ReadFailed :
          /\ outcome[e] = "failed"
          /\ CallsOf(calls, VariableWrites, e[1], e[2]) = {}
    /\ \A e \in Entities :
          CallsOf(calls, {"CreateVariable"}, e[1], e[2]) # {}
              => \E i \in CallsOf(calls, {"GetVariable"}, e[1], e[2]) :
                    calls[i].res = "notfound"

\* the time at which the throttle was called: the sleep, if any, is over
CalledAt == IF slept = <<>> THEN now ELSE now - slept[1]

RetryContract ==
    pc = "responded" =>
        /\ request.attempts \in 1..MaxResponses
        /\ request.responses[1] \in Transient => request.attempts > 1
        /\ request.responses[1] \in NonTransient
              => /\ request.attempts = 1
                 /\ request.returned = request.responses[1]
        /\ request.returned = request.responses[request.attempts]

\* Run has returned, with or without a fatal error
RunReturned == pc \in {"done", "fatal"}

\* C21 as stated: on every path by which Run returns, the summary has been
\* printed exactly once and its total is created + updated + skipped of the
\* returned result.
SummaryAlwaysAsStated ==
    RunReturned =>
        /\ Len(summary) = 1
        /\ summary[1].total = result.created + result.updated + result.skipped

\* C21 amended: when Run returns without a fatal error the summary has been
\* printed exactly once, with the counters of the returned result and their
\* sum as total; when the source listing fails Run returns the fatal error
\* with an empty result and no summary; no summary is printed before Run
\* returns.
SummaryOnReturn ==
    /\ pc = "done" =>
          /\ Len(summary) = 1
          /\ summary[1].total = result.created + result.updated + result.skipped
          /\ Counters(result) = Counters(summary[1])
          /\ summary[1].errors = Len(result.errors)
    /\ pc # "done" => summary = <<>>
    /\ pc = "fatal" => result = MigrationResult

\* C21 witness: a run that counted two entities and recorded a failure has
\* returned and printed its summary.
SummaryOnReturnWitness ==
    /\ pc = "done"
    /\ Total(result) = 2
    /\ Len(result.errors) = 1
    /\ Len(summary) = 1

\* the command has returned after Run did
CommandReturned == RunReturned /\ exit # NoExit

\* C22: when Run returns without a fatal error and the result holds a
\* failure, the command returns an error that reports the number of failures
\* and is not the "migration failed" error of an aborted run; when the result
\* holds no failure and Run returned no error, the command reports success.
ImperfectIsFailure ==
    CommandReturned =>
        /\ (pc = "done" /\ HasErrors(result)) =>
              /\ exit.code = "error"
              /\ exit.errors = Len(result.errors)
              /\ exit.msg # "migration failed"
        /\ (pc = "done" /\ ~HasErrors(result)) => exit.code = "ok"
        /\ pc = "fatal" =>
              /\ exit.code = "error"
              /\ exit.msg = "migration failed"

\* C22 witness: a run that counted an entity and recorded a failure has
\* returned, and the command has returned its error.
ImperfectIsFailureWitness ==
    /\ CommandReturned
    /\ pc = "done"
    /\ Total(result) >= 1
    /\ Len(result.errors) = 1
    /\ exit.code = "error"

\* the modes the specification supports, and the coordinates each requires
SupportedModes == {"repo-to-repo", "org-to-org", ModeEnvOnly}

RequiredCoordinates(mode) ==
    IF mode = "repo-to-repo"
    THEN {"sourceOwner", "sourceRepo", "targetOwner", "targetRepo"}
    ELSE IF mode = "org-to-org" THEN {"sourceOrg", "targetOrg"}
    ELSE IF mode = ModeEnvOnly
    THEN {"sourceOwner", "sourceRepo", "sourceEnv", "targetEnv"}
    ELSE {}

MissingCoordinate(cfg) == \E f \in RequiredCoordinates(cfg.mode) : cfg[f] = ""

\* New returned the error of Validate
Rejected == validation.err \notin {"none", "source client cannot be nil",
                                   "target client cannot be nil"}

\* C23: Validate returns an error iff the configuration is nil, its mode is
\* not one of the three supported modes, or a coordinate its mode requires is
\* empty; New builds no Migrator from a rejected configuration.
ConfigValidation ==
    pc = "constructed" =>
        /\ Rejected <=> \/ validation.cfg.nil
                        \/ validation.cfg.mode \notin SupportedModes
                        \/ MissingCoordinate(validation.cfg)
        /\ Rejected => ~validation.built

\* a coordinate the mode selected by the flags requires is missing
MissingFlag(f) ==
    \/ f.sourceOrg = ""
    \/ f.targetOrg = ""
    \/ ~f.orgToOrg /\ (f.sourceRepo = "" \/ f.targetRepo = "")

\* the flags name the same source and target
IdenticalEnds(f) ==
    /\ f.sourceOrg = f.targetOrg
    /\ f.orgToOrg \/ f.sourceRepo = f.targetRepo

\* the messages of the configuration errors of the command
ConfigurationErrors ==
    {"--source-org flag is required", "--target-org flag is required",
     "--source-repo is required for repository migration",
     "--target-repo is required for repository migration",
     "source and target organizations cannot be the same",
     "source and target repositories cannot be the same",
     "failed to initialize migrator"}

\* C24: when a coordinate required by the selected mode is missing, or source
\* and target are identical, no API call is ever issued (authentication and
\* capability checks included) and the command ends with a configuration
\* error.
ConfigErrorsFirst ==
    (MissingFlag(flags) \/ IdenticalEnds(flags)) =>
        /\ calls = <<>>
        /\ exit # NoExit => exit.msg \in ConfigurationErrors
        /\ pc \notin {"constructed"}

\* the positions of the GetUser calls of a side, and those that were refused
AuthChecks(side) == { i \in DOMAIN calls : calls[i].op = "GetUser" /\ calls[i].side = side }

AuthRejected(side) == { i \in AuthChecks(side) : calls[i].res = "error" }

\* C25 as stated: once authentication is checked, each side is checked whatever
\* the other check gave, and any rejection is fatal: no other call follows.
AuthPerSideAsStated ==
    pc \notin {"flags", "tokens", "auth"} /\ AuthChecks("source") # {} =>
        /\ AuthChecks("target") # {}
        /\ (AuthRejected("source") \cup AuthRejected("target")) # {} =>
              /\ pc = "failed"
              /\ exit.code = "error"
              /\ \A i \in DOMAIN calls : calls[i].op = "GetUser"

\* C25 amended: the source credential is checked first and the target
\* credential only when the source was accepted; the first rejection is
\* returned naming its side, is fatal, and no other call follows it.
AuthPerSide ==
    /\ \A t \in AuthChecks("target") :
          \E i \in AuthChecks("source") : i < t /\ calls[i].res = "ok"
    /\ AuthRejected("source") # {} =>
          /\ AuthChecks("target") = {}
          /\ exit.role = "source"
    /\ AuthRejected("target") # {} => exit.role = "target"
    /\ (AuthRejected("source") \cup AuthRejected("target")) # {} =>
          /\ pc = "failed"
          /\ exit.code = "error"
          /\ exit.msg = "authentication failed"
          /\ \A i \in DOMAIN calls : calls[i].op = "GetUser"

\* C25 witness: both credentials are rejected by the platform; the source was
\* asked and refused, the command has failed and the target was never asked.
AuthPerSideWitness ==
    /\ ~creds["source"].valid
    /\ ~creds["target"].valid
    /\ pc = "failed"
    /\ AuthRejected("source") # {}
    /\ Len(calls) = 1

\* the organization variables whose source selection could not be listed
SelectionFetchFailed ==
    { n \in OrgVarNames :
        \E i \in CallsOf(calls, {"ListOrgVariableSelectedRepos"}, Top, n) :
            calls[i].res = "error" }

\* the failures of the result that name organization variable n
VariableFailuresNaming(n) ==
    { k \in DOMAIN result.errors :
        result.errors[k].env = Top /\ result.errors[k].name = n }

\* the calls of the reconciliation of n that failed
FailedVariableCalls(n, ops) ==
    { i \in CallsOf(calls, ops, Top, n) : calls[i].res = "error" }

\* C26: a 'selected' source variable whose selected repositories cannot be
\* listed is still reconciled, with an empty repository selection; its outcome
\* is that of the normal rule, one counter when its own read and write
\* succeed, and the fetch error is not appended to the failure list: a
\* failure naming the variable comes from a failed write of it only.
SelectionFetchDegrades ==
    \A n \in SelectionFetchFailed :
        /\ CallsOf(calls, {"GetVariable"}, Top, n) # {}
        /\ sent[n] # NoBody =>
              /\ sent[n].variable.visibility = "selected"
              /\ sent[n].variable.selectedRepositoryIDs = {}
        /\ FailedVariableCalls(n, VariableOps) = {} => outcome[<<Top, n>>] \in Counted
        /\ Cardinality(VariableFailuresNaming(n))
              = Cardinality(FailedVariableCalls(n, VariableWrites))

\* C26 witness: the selection of a variable, which names a repository the
\* target has, could not be listed; the variable was created all the same and
\* the run recorded no failure.
SelectionFetchDegradesWitness ==
    \E n \in SelectionFetchFailed :
        /\ srcSelected[n] \cap tgtRepos # {}
        /\ Written(n)
        /\ outcome[<<Top, n>>] = "created"
        /\ result.errors = <<>>
        /\ pc = "done"

Granted(h) == SelectSeq(h.parts, LAMBDA part : part # "")

\* the capability a mode requires
RequiredOf(mode) == IF mode = ModeOrgToOrg THEN "admin:org" ELSE "repo"

\* C28: a credential whose scope list is present and empty is refused with a
\* missing-scope error by ValidateOrgScopes and ValidateRepoScopes; validation
\* is skipped only for a credential whose scope information is absent.
EmptyScopesFailValidation ==
    (pc = "scopesValidated" /\ ~scopeCheck.fails) =>
        /\ (scopeCheck.header.present /\ Granted(scopeCheck.header) = <<>>)
              => scopeCheck.err = "missing required scope"
        /\ (scopeCheck.err = "none" /\ scopeCheck.header.present)
              => hasScope(Granted(scopeCheck.header), RequiredOf(scopeCheck.mode))

\* the calls that only read
ReadOps ==
    {"ListVariables", "ListEnvironments", "ListOrgVariableSelectedRepos",
     "GetVariable", "GetEnvironment", "GetRepo", "GetUser", "GetTokenScopes"}

\* every call addressed to the source is a list or a get, and every create
\* or update is addressed to the target
SourceOnlyRead ==
    \A i \in DOMAIN calls :
        /\ calls[i].side = "source" => calls[i].op \in ReadOps
        /\ calls[i].op \in WriteOps => calls[i].side = "target"

\* C29: in every mode and for every combination of dryRun, force and
\* skip-environments, a run issues only list and get calls against the
\* source, every create-variable, update-variable and create-environment call
\* is addressed to the target, and no step of a run changes the source.
SourceReadOnly ==
    /\ []SourceOnlyRead
    /\ [][UNCHANGED <<srcVars, srcEnvs, srcEnvVars, srcVis, srcSelected>>]_vars

\* C29 witness: a real run that listed the source's variables and
\* environments has created a variable, created an environment and updated a
\* variable in the target, and has returned.
SourceReadOnlyWitness ==
    /\ pc = "done"
    /\ ~config.dryRun
    /\ \E i, j, k \in DOMAIN calls :
          /\ calls[i].op = "CreateVariable" /\ calls[i].res = "ok"
          /\ calls[j].op = "CreateEnvironment" /\ calls[j].res = "ok"
          /\ calls[k].op = "UpdateVariable" /\ calls[k].res = "ok"
    /\ \E i \in DOMAIN calls : calls[i].side = "source" /\ calls[i].op = "ListEnvironments"

\* the run read n as absent from the target, another actor's value is in the
\* target under that name, and the run has sent its create of n: the create
\* met the other actor's variable, or failed and the other actor came after
Raced(n) ==
    /\ \E i \in CallsOf(calls, {"GetVariable"}, Top, n) : calls[i].res = "notfound"
    /\ CallsOf(calls, {"CreateVariable"}, Top, n) # {}
    /\ tgtVars[n] = Other

\* the reconciliation of n ended as one failure naming it and no counter
FailedOnly(n) ==
    /\ outcome[<<Top, n>>] = "failed"
    /\ Cardinality(VariableFailuresNaming(n)) = 1
    /\ \A i \in CallsOf(calls, {"CreateVariable"}, Top, n) : calls[i].res = "error"
    /\ CallsOf(calls, {"UpdateVariable"}, Top, n) = {}

\* once the loop over the variables is over, every variable listed after n
\* was attempted and ended in one counter or one failure
RemainingProcessed(n) ==
    (pc \in {"return", "done"}) =>
        \A i, j \in DOMAIN srcVars :
            (i < j /\ srcVars[i] = n) =>
                /\ Attempted(Top, srcVars[j])
                /\ outcome[<<Top, srcVars[j]>>] \in Counted \cup {"failed"}

\* without force, no step replaces a value another actor wrote
KeepsOtherValue ==
    \A n \in OrgVarNames :
        (~config.force /\ tgtVars[n] = Other) => tgtVars'[n] = Other

\* C30: without force, when another actor creates variable n in the target
\* between the run's existence read of n and its create, the platform refusing
\* to create an existing name, the run records n as one failure and in no
\* counter, leaves the other actor's value in place, and goes on to the
\* remaining variables.
NoOverwriteUnderRace ==
    /\ [](\A n \in OrgVarNames :
            (~config.force /\ Raced(n)) => FailedOnly(n) /\ RemainingProcessed(n))
    /\ [][KeepsOtherValue]_vars

\* a finished run without force and without an injected fault whose first
\* variable was created by another actor between its read and its create, and
\* whose second variable was then created by the run
NoOverwriteUnderRaceWitness ==
    /\ pc = "done"
    /\ ~config.force
    /\ failures = 0
    /\ Len(srcVars) = 2
    /\ Raced(srcVars[1])
    /\ outcome[<<Top, srcVars[1]>>] = "failed"
    /\ outcome[<<Top, srcVars[2]>>] = "created"
    /\ tgtVars[srcVars[2]] = "new"

=============================================================================
